---- MODULE Spec2Model ----
(***************************************************************************)
(* Beat Rush: the judgment engine and session lifecycle of js/game.js      *)
(* (class Game), with the parts of the audio transport (audio.js) and of   *)
(* the host scheduler (timers, animation frames, the clock) that the       *)
(* engine reads, the high-score store of js/scores.js and the song loader  *)
(* (AudioManager.loadSong).                                                *)
(*                                                                         *)
(* Time is in integer milliseconds.  Health is kept in tenths of a point   *)
(* (the code adds 0.8 and subtracts 4), so 100 is HP_FULL = 1000.          *)
(* Every handler of the single-threaded program is one atomic action.      *)
(***************************************************************************)
EXTENDS Integers, Sequences, FiniteSets, TLC

\* ---------------------------------------------------------------- constants
WIN_p == 50
WIN_g == 100
WIN_k == 150
PTS_p == 350
PTS_g == 200
PTS_k == 100
HIT_GRACE == 40
MISS_GRACE == 60
HP_FULL == 1000
HP_MISS == 40
HP_HIT == 8
ARM_DELAY == 800
DEATH_DELAY == 500
END_DELAY == 300
END_AFTER == 3000
COMBO_STEP == 10
LANES == 0..3

\* ------------------------------------------------------------------- bounds
MaxSessions == 3
MaxPauses == 1
MaxStray == 1
MaxCalls == 2
MaxIters == 50
\* the calls of saveScore and of loadSong in a run
MaxSaves == 2
MaxLoads == 2

\* ------------------------------------------------------- charts (the input)
Note(t, lane) == [t |-> t, lane |-> lane, hit |-> FALSE, missed |-> FALSE]

\* Two notes: lane 0 at 3000 ms, lane 1 at 3160 ms.
ChartDuo == << Note(3000, 0), Note(3160, 1) >>

\* Ten notes: lanes 0, 1 and 2 at 3000, 3050 and 3100 ms, all within the
\* tightest window of a press at 3050 ms, then lane 0 at 3150 ms.
ChartCombo ==
  [i \in 1..9 |-> Note(3000 + 50 * ((i - 1) \div 3), (i - 1) % 3)] \o << Note(3150, 0) >>

\* Twenty-four notes, lanes 0, 1 and 2 every 50 ms from 2500 to 2850 ms, then
\* lane 0 at 3900 ms and lane 1 at 4060 ms.
ChartDense ==
  [i \in 1..24 |-> Note(2500 + 50 * ((i - 1) \div 3), (i - 1) % 3)]
    \o << Note(3900, 0), Note(4060, 1) >>

\* Four notes, one in each lane, all at 3000 ms.
ChartQuad == [i \in 1..4 |-> Note(3000, i - 1)]

SONGS == {"duo", "combo", "dense"}

\* generateBeatMap(song, audio.duration): the chart of a song
ChartOf(song) ==
  CASE song = "duo" -> ChartDuo
    [] song = "quad" -> ChartQuad
    [] song = "empty" -> << >>
    [] song = "combo" -> ChartCombo
    [] OTHER -> ChartDense

\* audio.buffer.duration of the song's file, in ms
DurationOf(song) == IF song = "dense" THEN 6000 ELSE 3000

\* The instants at which the host delivers events (the clock readings), for a
\* run whose catalog holds the one song: the page opens at 0, the first load
\* completes at 400, so that elapsed = reading - 1200 while nothing pauses.
InstantsOf(songs) ==
  {0, 400, 1200} \cup
    (IF "empty" \in songs THEN {4300, 4700, 8000, 12000}
     ELSE IF "quad" \in songs THEN {4260, 7400, 7800}
     ELSE IF "duo" \in songs
     THEN {4200 + d : d \in {0, 50, 100, 150, 190, 210, 220}} \cup {7400}
     ELSE IF "combo" \in songs THEN {4250, 4300, 8600}
     ELSE {5070, 5260, 5320, 9200})

VARIABLES catalog, now, state, paused, pauseTime, selectedSong, gd, buffer, audio,
          ctxSuspended, ctxTime, timers, gameAF, strayAF,
          session, anchor0, pausedSince, pausedTotal, streak, endScheduled, pauses,
          playedAt, gen, bg, storage, saveLog, loads

\* the variables of the game; gen is the state of a call of generateBeatMap,
\* bg the pending frame callbacks of the background render loop, storage the
\* localStorage item of the high scores, saveLog what the calls of saveScore
\* were given and returned, loads the calls of AudioManager.loadSong
gameVars == << catalog, now, state, paused, pauseTime, selectedSong, gd, buffer, audio,
               ctxSuspended, ctxTime, timers, gameAF, strayAF,
               session, anchor0, pausedSince, pausedTotal, streak, endScheduled, pauses,
               playedAt >>

vars == << gameVars, gen, bg, storage, saveLog, loads >>

\* ------------------------------------------------------------ pure helpers
Abs(x) == IF x < 0 THEN -x ELSE x
Max(a, b) == IF a >= b THEN a ELSE b
Min(a, b) == IF a <= b THEN a ELSE b

NoSong == "none"
ZeroStats == [perfect |-> 0, great |-> 0, good |-> 0, miss |-> 0]

\* this.gd = null
NoGd ==
  [song |-> NoSong, notes |-> << >>, score |-> 0, combo |-> 0, maxCombo |-> 0,
   hp |-> 0, stats |-> ZeroStats, start |-> 0, judg |-> "", judgT |-> 0,
   done |-> FALSE]

\* the gd object startGame builds at clock reading t
NewGd(song, t) ==
  [song |-> song, notes |-> ChartOf(song), score |-> 0, combo |-> 0,
   maxCombo |-> 0, hp |-> HP_FULL, stats |-> ZeroStats, start |-> t + ARM_DELAY,
   judg |-> "", judgT |-> 0, done |-> FALSE]

Pending(n) == ~n.hit /\ ~n.missed

\* ScanBest with <= in place of <: the last of the closest notes
RECURSIVE ScanBestLast(_, _, _, _, _, _)
ScanBestLast(notes, lane, elapsed, i, best, bestDist) ==
  IF i > Len(notes) THEN [best |-> best, bestDist |-> bestDist]
  ELSE LET n == notes[i]
           d == Abs(elapsed - n.t)
       IN IF n.lane # lane \/ n.hit \/ n.missed
          THEN ScanBestLast(notes, lane, elapsed, i + 1, best, bestDist)
          ELSE IF bestDist = -1 \/ d <= bestDist
               THEN ScanBestLast(notes, lane, elapsed, i + 1, i, d)
               ELSE ScanBestLast(notes, lane, elapsed, i + 1, best, bestDist)

\* tryHit's scan: the index of the first pending note of the lane at the least
\* distance (0 = none) and that distance (-1 = Infinity)
RECURSIVE ScanBest(_, _, _, _, _, _)
ScanBest(notes, lane, elapsed, i, best, bestDist) ==
  IF i > Len(notes) THEN [best |-> best, bestDist |-> bestDist]
  ELSE LET n == notes[i]
           d == Abs(elapsed - n.t)
       IN IF n.lane # lane \/ n.hit \/ n.missed
          THEN ScanBest(notes, lane, elapsed, i + 1, best, bestDist)
          ELSE IF bestDist = -1 \/ d < bestDist
               THEN ScanBest(notes, lane, elapsed, i + 1, i, d)
               ELSE ScanBest(notes, lane, elapsed, i + 1, best, bestDist)

\* Unmatched with the frame loop's grace added to the gate
UnmatchedWide(best, bestDist) == best = 0 \/ bestDist > WIN_k + HIT_GRACE + MISS_GRACE

\* tryHit's gate: no pending note, or the closest one is outside WIN.k + 40
Unmatched(best, bestDist) == best = 0 \/ bestDist > WIN_k + HIT_GRACE

\* JudgOf with the widest window read as d < WIN.k
JudgOfStrictGood(d) ==
  IF d <= WIN_p THEN "PERFECT"
  ELSE IF d <= WIN_g THEN "GREAT"
  ELSE IF d < WIN_k THEN "GOOD"
  ELSE "MISS"

\* the nested timing windows of tryHit
JudgOf(d) ==
  IF d <= WIN_p THEN "PERFECT"
  ELSE IF d <= WIN_g THEN "GREAT"
  ELSE IF d <= WIN_k THEN "GOOD"
  ELSE "MISS"

\* PtsOf with the points of GREAT and GOOD swapped
PtsOfSwapped(judg) ==
  CASE judg = "PERFECT" -> PTS_p
    [] judg = "GREAT" -> PTS_k
    [] judg = "GOOD" -> PTS_g
    [] OTHER -> 0

PtsOf(judg) ==
  CASE judg = "PERFECT" -> PTS_p
    [] judg = "GREAT" -> PTS_g
    [] judg = "GOOD" -> PTS_k
    [] OTHER -> 0

\* const mult = 1 + Math.floor(this.gd.combo / 10), read after combo++
MultOf(combo) == 1 + (combo \div COMBO_STEP)

\* BumpStat that leaves a good judgment uncounted
BumpStatSkipGood(stats, judg) ==
  CASE judg = "PERFECT" -> [stats EXCEPT !.perfect = @ + 1]
    [] judg = "GREAT" -> [stats EXCEPT !.great = @ + 1]
    [] judg = "GOOD" -> stats
    [] OTHER -> [stats EXCEPT !.miss = @ + 1]

\* stats[judg.toLowerCase()]++
BumpStat(stats, judg) ==
  CASE judg = "PERFECT" -> [stats EXCEPT !.perfect = @ + 1]
    [] judg = "GREAT" -> [stats EXCEPT !.great = @ + 1]
    [] judg = "GOOD" -> [stats EXCEPT !.good = @ + 1]
    [] OTHER -> [stats EXCEPT !.miss = @ + 1]

\* MissEffects without the combo reset
MissEffectsKeepCombo(g, t) ==
  [g EXCEPT !.hp = Max(0, g.hp - HP_MISS),
            !.stats = BumpStat(g.stats, "MISS"), !.judg = "MISS", !.judgT = t]

\* the miss branch shared by tryHit and the frame loop
MissEffects(g, t) ==
  [g EXCEPT !.combo = 0, !.hp = Max(0, g.hp - HP_MISS),
            !.stats = BumpStat(g.stats, "MISS"), !.judg = "MISS", !.judgT = t]

\* HitEffects without the cap on health
HitEffectsUncapped(g, judg, t) ==
  LET combo == g.combo + 1
      mult == MultOf(combo)
  IN [g EXCEPT !.combo = combo, !.score = g.score + PtsOf(judg) * mult,
               !.maxCombo = Max(g.maxCombo, combo),
               !.stats = BumpStat(g.stats, judg),
               !.hp = g.hp + HP_HIT, !.judg = judg, !.judgT = t]

\* the non-miss branch of tryHit
HitEffects(g, judg, t) ==
  LET combo == g.combo + 1
      mult == MultOf(combo)
  IN [g EXCEPT !.combo = combo, !.score = g.score + PtsOf(judg) * mult,
               !.maxCombo = Max(g.maxCombo, combo),
               !.stats = BumpStat(g.stats, judg),
               !.hp = Min(HP_FULL, g.hp + HP_HIT), !.judg = judg, !.judgT = t]

\* HitIgnored that never returns early
HitIgnoredNever(g, pz) == FALSE

\* HitIgnored without the paused test
HitIgnoredNoPause(g, pz) == g = NoGd \/ g.done

\* tryHit's first guard: if (!this.gd || this.gd.done || this.paused) return
HitIgnored(g, pz) == g = NoGd \/ g.done \/ pz

\* tryHit past its first guard, at clock reading t
HitResult(g, lane, t) ==
  LET elapsed == t - g.start
      r == ScanBest(g.notes, lane, elapsed, 1, 0, -1)
  IN IF Unmatched(r.best, r.bestDist) THEN g
     ELSE LET judg == JudgOf(r.bestDist)
              g1 == [g EXCEPT !.notes[r.best].hit = TRUE]
          IN IF judg = "MISS" THEN MissEffects(g1, t) ELSE HitEffects(g1, judg, t)

\* Overdue without the !n.hit test
OverdueIgnoresHit(n, elapsed) == ~n.missed /\ elapsed > n.t + WIN_k + MISS_GRACE

\* Overdue with tryHit's grace (40) in place of the frame loop's (60)
OverdueAtGate(n, elapsed) == ~n.hit /\ ~n.missed /\ elapsed > n.t + WIN_k + HIT_GRACE

\* the frame loop's timeout test for one note
Overdue(n, elapsed) == ~n.hit /\ ~n.missed /\ elapsed > n.t + WIN_k + MISS_GRACE

\* the frame loop's pass over the notes
RECURSIVE MissLoop(_, _, _, _)
MissLoop(g, elapsed, t, i) ==
  IF i > Len(g.notes) THEN g
  ELSE IF Overdue(g.notes[i], elapsed)
       THEN MissLoop(MissEffects([g EXCEPT !.notes[i].missed = TRUE], t), elapsed, t, i + 1)
       ELSE MissLoop(g, elapsed, t, i + 1)

\* HpDeath with < in place of <=
HpDeathBelowZero(g) == g.hp < 0 /\ ~g.done

\* "HP death": gd.hp <= 0 && !gd.done
HpDeath(g) == g.hp <= 0 /\ ~g.done

\* SongEnd without the !gd.done test
SongEndUnguarded(g, elapsed, playing) ==
  LET songEnded == ~playing /\ elapsed > END_AFTER
      notesEnded == Len(g.notes) > 0 /\ elapsed > g.notes[Len(g.notes)].t + END_AFTER
  IN songEnded \/ notesEnded

\* "Song end": (songEnded || notesEnded) && !gd.done
SongEnd(g, elapsed, playing) ==
  LET songEnded == ~playing /\ elapsed > END_AFTER
      notesEnded == Len(g.notes) > 0 /\ elapsed > g.notes[Len(g.notes)].t + END_AFTER
  IN (songEnded \/ notesEnded) /\ ~g.done

\* gameLoop past its first guard, at clock reading t: the new gd and the
\* delays of the showResults timers it sets
LoopResult(g, t, playing) ==
  LET elapsed == t - g.start
      g1 == MissLoop(g, elapsed, t, 1)
      death == HpDeath(g1)
      g2 == IF death THEN [g1 EXCEPT !.done = TRUE] ELSE g1
      ending == SongEnd(g2, elapsed, playing)
      g3 == IF ending THEN [g2 EXCEPT !.done = TRUE] ELSE g2
  IN [gd |-> g3,
      sched |-> (IF death THEN << DEATH_DELAY >> ELSE << >>)
                  \o (IF ending THEN << END_DELAY >> ELSE << >>)]

\* ResumedStart with = in place of +=
ResumedStartAssign(start, t, pt) == t - pt

\* resumeGame: this.gd.start += performance.now() - this.pauseTime
ResumedStart(start, t, pt) == start + (t - pt)

\* gameLoop's first guard
LoopRuns(st, pz) == st = "playing" /\ ~pz

Timer(kind, due, song) == [kind |-> kind, due |-> due, song |-> song]

ResultTimers(sched, t) == {Timer("results", t + sched[i], NoSong) : i \in DOMAIN sched}

\* ------------------------------------------------------ beat map generator
\* 32-bit words are pairs << high half, low half >> of 16-bit halves, so that
\* every intermediate value of the arithmetic stays below 2^31.
B16 == 65536

\* true of every value; a LET definition tested with it is evaluated once,
\* before it is passed on to a recursive call
Evaluated(v) == v = v

RECURSIVE Xor16(_, _)
Xor16(a, b) ==
  IF a = 0 THEN b
  ELSE IF b = 0 THEN a
  ELSE 2 * Xor16(a \div 2, b \div 2) + ((a + b) % 2)

RECURSIVE Or16(_, _)
Or16(a, b) ==
  IF a = 0 THEN b
  ELSE IF b = 0 THEN a
  ELSE 2 * Or16(a \div 2, b \div 2) + (IF a % 2 = 1 \/ b % 2 = 1 THEN 1 ELSE 0)

RECURSIVE Pow2(_)
Pow2(n) == IF n = 0 THEN 1 ELSE 2 * Pow2(n - 1)

\* x ^ y
Xor32(x, y) == << Xor16(x[1], y[1]), Xor16(x[2], y[2]) >>

\* c | x for a constant c below 2^16
OrLow(c, x) == << x[1], Or16(c, x[2]) >>

\* (x + y) | 0
Add32(x, y) ==
  LET lo == x[2] + y[2]
  IN << (x[1] + y[1] + lo \div B16) % B16, lo % B16 >>

\* x >>> n, 0 < n < 16
Shr32(x, n) ==
  << x[1] \div Pow2(n), (x[1] % Pow2(n)) * Pow2(16 - n) + x[2] \div Pow2(n) >>

\* the low half of a * b, for halves a and b
MulLow16(a, b) == ((a % 256) * b + (((a \div 256) * b) % 256) * 256) % B16

\* a * b as a word, for halves a and b
Mul16(a, b) ==
  LET p0 == (a % 256) * b
      p1 == (a \div 256) * b
      low == (p1 % 256) * 256 + p0
  IN << p1 \div 256 + low \div B16, low % B16 >>

\* Math.imul(x, y)
Imul(x, y) ==
  LET p == Mul16(x[2], y[2])
  IN << (p[1] + MulLow16(x[1], y[2]) + MulLow16(x[2], y[1])) % B16, p[2] >>

\* Math.abs of the word read as a signed integer
Abs32(x) ==
  IF x[1] < B16 \div 2 THEN x
  ELSE IF x[2] = 0 THEN << (B16 - x[1]) % B16, 0 >>
  ELSE << B16 - 1 - x[1], B16 - x[2] >>

\* hashString(str): hash = ((hash << 5) - hash + str.charCodeAt(i)) | 0 over
\* the characters, then Math.abs(hash); str is the sequence of char codes
RECURSIVE HashFrom(_, _, _)
HashFrom(str, i, hash) ==
  IF i > Len(str) THEN hash
  ELSE LET next == Add32(Imul(hash, << 0, 31 >>), << 0, str[i] >>)
       IN CASE Evaluated(next) -> HashFrom(str, i + 1, next)

hashString(str) == Abs32(HashFrom(str, 1, << 0, 0 >>))

\* createRNG with the closure shared by all calls: the state the last call left
createRNGShared(seed, last) == last

\* createRNG(seed): let s = seed | 0, a closure variable of this call; last is
\* the state in which the closure of the previous call was left
createRNG(seed, last) == seed

\* mulberry32, the closure's first statement: s = (s + 0x6D2B79F5) | 0
RngStep(s) == Add32(s, << 27947, 31221 >>)

\* mulberry32, the rest: the value returned once s is advanced, times 2^32
RngValue(s) ==
  LET t1 == Imul(Xor32(s, Shr32(s, 15)), OrLow(1, s))
      t2 == Xor32(Add32(t1, Imul(Xor32(t1, Shr32(t1, 7)), OrLow(61, t1))), t1)
  IN Xor32(t2, Shr32(t2, 14))

\* u / 2^32 < n / 10000
DrawBelow(u, n) == u[1] * 10000 + (u[2] * 10000) \div B16 < n * B16

\* u / 2^32 > 0.7 * n / 10000, that is u * 3125 > 7 * n * 2^27
DrawAbove(u, n) ==
  LET a == u[1] * 3125 + (u[2] * 3125) \div B16
      frac == (u[2] * 3125) % B16
      r == 7 * n * 2048
  IN a > r \/ (a = r /\ frac > 0)

\* Math.floor(u / 2^32 * len)
DrawIndex(u, len) == (u[1] * len + (u[2] * len) \div B16) \div B16

\* SECTIONS: startPct and endPct in hundredths, density in hundredths
Section(from, to, density, maxSimul, name) ==
  [from |-> from, to |-> to, density |-> density, maxSimul |-> maxSimul, name |-> name]

SECTIONS ==
  << Section(0, 4, 20, 1, "intro"),      Section(4, 12, 45, 1, "warmup"),
     Section(12, 25, 60, 2, "verse1"),   Section(25, 38, 80, 2, "buildup1"),
     Section(38, 52, 100, 3, "chorus1"), Section(52, 60, 50, 2, "bridge"),
     Section(60, 72, 65, 2, "verse2"),   Section(72, 80, 85, 2, "buildup2"),
     Section(80, 93, 100, 4, "chorus2"), Section(93, 97, 40, 2, "outro"),
     Section(97, 100, 15, 1, "end") >>

\* PATTERNS: << beatOffset, lane >> pairs, beatOffset in thousandths of a beat
PATTERNS ==
  [single    |-> << << 0, -1 >> >>,
   double    |-> << << 0, -1 >>, << 0, -1 >> >>,
   stairUp   |-> << << 0, 0 >>, << 500, 1 >>, << 1000, 2 >>, << 1500, 3 >> >>,
   stairDown |-> << << 0, 3 >>, << 500, 2 >>, << 1000, 1 >>, << 1500, 0 >> >>,
   zigzag    |-> << << 0, 0 >>, << 500, 3 >>, << 1000, 0 >>, << 1500, 3 >> >>,
   innerZig  |-> << << 0, 1 >>, << 500, 2 >>, << 1000, 1 >>, << 1500, 2 >> >>,
   gallop    |-> << << 0, -1 >>, << 250, -1 >>, << 1000, -1 >>, << 1250, -1 >> >>,
   triplet   |-> << << 0, -1 >>, << 333, -1 >>, << 667, -1 >> >>,
   burst     |-> << << 0, 0 >>, << 0, 3 >>, << 500, 1 >>, << 500, 2 >> >>,
   stream4   |-> << << 0, -1 >>, << 250, -1 >>, << 500, -1 >>, << 750, -1 >> >>,
   stream8   |-> << << 0, -1 >>, << 125, -1 >>, << 250, -1 >>, << 375, -1 >>,
                   << 500, -1 >>, << 625, -1 >>, << 750, -1 >>, << 875, -1 >> >>,
   chord2    |-> << << 0, 0 >>, << 0, 1 >> >>,
   chord3    |-> << << 0, 0 >>, << 0, 1 >>, << 0, 2 >> >>,
   chord4    |-> << << 0, 0 >>, << 0, 1 >>, << 0, 2 >>, << 0, 3 >> >>,
   roll      |-> << << 0, 0 >>, << 250, 1 >>, << 500, 2 >>, << 750, 3 >>,
                   << 1000, 3 >>, << 1250, 2 >>, << 1500, 1 >>, << 1750, 0 >> >>]

PATTERN_POOLS ==
  [intro    |-> << "single" >>,
   warmup   |-> << "single", "single", "double", "stairUp" >>,
   verse1   |-> << "single", "double", "stairUp", "stairDown", "zigzag", "gallop" >>,
   buildup1 |-> << "double", "stairUp", "stairDown", "zigzag", "gallop", "triplet", "burst" >>,
   chorus1  |-> << "double", "stairUp", "stairDown", "zigzag", "innerZig", "gallop",
                   "triplet", "burst", "stream4", "chord2" >>,
   bridge   |-> << "single", "single", "innerZig", "triplet" >>,
   verse2   |-> << "single", "double", "stairDown", "zigzag", "gallop", "innerZig" >>,
   buildup2 |-> << "double", "stairUp", "zigzag", "gallop", "triplet", "burst", "stream4" >>,
   chorus2  |-> << "stairUp", "stairDown", "zigzag", "gallop", "triplet", "burst",
                   "stream4", "roll", "chord2", "chord3" >>,
   outro    |-> << "single", "double", "stairDown" >>,
   end      |-> << "single", "chord4" >>]

\* a duration in seconds: a finite number of milliseconds, Infinity or NaN
Finite(ms) == [kind |-> "finite", ms |-> ms]
Infinity == [kind |-> "Infinity", ms |-> 0]
NaN == [kind |-> "NaN", ms |-> 0]

LEAD_IN == 2500
TAIL == 1000

\* Math.floor(totalMs / beatMs) with beatMs = 60000 / bpm and
\* totalMs = durationSec * 1000: a number of beats, Infinity, -Infinity or NaN
totalBeatsOf(bpm, duration) ==
  IF duration.kind = "NaN" THEN [kind |-> "NaN", n |-> 0]
  ELSE IF duration.kind = "Infinity"
       THEN (IF bpm > 0 THEN [kind |-> "Infinity", n |-> 0]
             ELSE IF bpm < 0 THEN [kind |-> "-Infinity", n |-> 0]
             ELSE [kind |-> "NaN", n |-> 0])
  ELSE [kind |-> "finite", n |-> (duration.ms * bpm) \div 60000]

\* the loop test: beat < totalBeats, beat in thousandths of a beat
BeatsLeft(beat, totalBeats) ==
  \/ totalBeats.kind = "Infinity"
  \/ totalBeats.kind = "finite" /\ beat < totalBeats.n * 1000

\* getSection(beat / totalBeats)
RECURSIVE SectionFrom(_, _, _)
SectionFrom(beat, totalBeats, i) ==
  IF i > Len(SECTIONS) THEN SECTIONS[Len(SECTIONS)]
  ELSE LET s == SECTIONS[i]
           inside == IF totalBeats.kind = "Infinity" THEN s.from = 0
                 ELSE /\ beat >= s.from * totalBeats.n * 10
                      /\ beat < s.to * totalBeats.n * 10
       IN IF inside THEN s ELSE SectionFrom(beat, totalBeats, i + 1)

getSection(beat, totalBeats) == SectionFrom(beat, totalBeats, 1)

\* densityScale, in hundredths
densityScaleOf(bpm) ==
  IF bpm >= 135 THEN 85 ELSE IF bpm >= 115 THEN 100 ELSE IF bpm >= 95 THEN 115 ELSE 130

\* PickLane without the loop: the first draw is taken, used or not
PickLaneOnce(s, beatOffset, usedLanes) ==
  [s |-> RngStep(s), l |-> DrawIndex(RngValue(RngStep(s)), 4)]

\* do { l = Math.floor(rng() * 4) } while (usedLanes.has(`${beatOffset}-${l}`))
RECURSIVE PickLane(_, _, _)
PickLane(s, beatOffset, usedLanes) ==
  LET s1 == RngStep(s)
      l == DrawIndex(RngValue(s1), 4)
  IN IF << beatOffset, l >> \in usedLanes
     THEN CASE Evaluated(s1) -> PickLane(s1, beatOffset, usedLanes)
     ELSE [s |-> s1, l |-> l]

\* the maxSimultaneous test without the continue: nothing is dropped
CapReachedNever(notes, timeKey, maxSimul) == FALSE

\* the maxSimultaneous test: the notes within 0.01 beat of timeKey number
\* maxSimul or more
CapReached(notes, timeKey, maxSimul) ==
  Cardinality({j \in DOMAIN notes : Abs(notes[j].beat - timeKey) < 10}) >= maxSimul

\* the tail test: timeMs > totalMs + leadIn - 1000 with
\* timeMs = leadIn + timeKey * beatMs, both sides times bpm
InTail(timeKey, bpm, duration) ==
  /\ duration.kind = "finite"
  /\ LEAD_IN * bpm + timeKey * 60 > (duration.ms + LEAD_IN - TAIL) * bpm

\* a pushed note: t is timeMs times bpm (timeMs = leadIn + timeKey * 60000 / bpm),
\* beat is timeKey in thousandths of a beat
GenNote(timeKey, lane, bpm) ==
  [t |-> LEAD_IN * bpm + timeKey * 60, beat |-> timeKey, lane |-> lane,
   hit |-> FALSE, missed |-> FALSE]

\* the loop over the pairs of a pattern placed at beat, from pair i on:
\* p holds the rng state, the notes and usedLanes, and capped, the number of
\* placements the maxSimultaneous test has rejected (an observation)
RECURSIVE PlacePattern(_, _, _, _, _, _, _)
PlacePattern(pattern, i, p, beat, maxSimul, bpm, duration) ==
  IF i > Len(pattern) THEN p
  ELSE LET beatOffset == pattern[i][1]
           lane == pattern[i][2]
           pick == IF lane = -1 THEN PickLane(p.s, beatOffset, p.usedLanes)
                   ELSE [s |-> p.s, l |-> lane]
           used == p.usedLanes \cup {<< beatOffset, pick.l >>}
           timeKey == beat + beatOffset
           atCap == CapReached(p.notes, timeKey, maxSimul)
           skip == atCap \/ InTail(timeKey, bpm, duration)
           notes == IF skip THEN p.notes
                    ELSE Append(p.notes, GenNote(timeKey, pick.l, bpm))
           next == [s |-> pick.s, notes |-> notes, usedLanes |-> used,
                    capped |-> p.capped + (IF atCap THEN 1 ELSE 0)]
       IN CASE Evaluated(next) ->
                 PlacePattern(pattern, i + 1, next, beat, maxSimul, bpm, duration)

\* Math.max(...pattern.map(p => p[0])) + 1, in thousandths of a beat
RECURSIVE MaxOffset(_, _)
MaxOffset(pattern, i) ==
  IF i > Len(pattern) THEN 0 ELSE Max(pattern[i][1], MaxOffset(pattern, i + 1))

patternLength(pattern) == MaxOffset(pattern, 1) + 1000

\* the section of the beat cursor of g and its density times densityScale,
\* in ten-thousandths
sectionAt(g) == getSection(g.beat, totalBeatsOf(g.bpm, g.duration))

densityAt(g) == sectionAt(g).density * densityScaleOf(g.bpm)

\* the density check of an iteration: rng() < density, the first draw
DensityCheck(g) == DrawBelow(RngValue(RngStep(g.s)), densityAt(g))

\* pool[Math.floor(rng() * pool.length)], the second draw
patternAt(g) ==
  LET pool == PATTERN_POOLS[sectionAt(g).name]
  IN PATTERNS[pool[DrawIndex(RngValue(RngStep(RngStep(g.s))), Len(pool)) + 1]]

\* SkipBeat with beat += 0.5
SkipHalfBeat(beat) == beat + 500

\* the else branch of the density check: beat += 1
SkipBeat(beat) == beat + 1000

\* one iteration of while (beat < totalBeats): g holds the rng state s, beat
\* and notes of a call on (bpm, duration)
Iterate(g) ==
  IF DensityCheck(g)
  THEN LET pattern == patternAt(g)
           p == PlacePattern(pattern, 1,
                             [s |-> RngStep(RngStep(g.s)), notes |-> g.notes, usedLanes |-> {},
                              capped |-> g.capped],
                             g.beat, sectionAt(g).maxSimul, g.bpm, g.duration)
           s3 == RngStep(p.s)
           spacing == IF DrawAbove(RngValue(s3), densityAt(g)) THEN 500 ELSE 0
       IN [g EXCEPT !.s = s3, !.notes = p.notes, !.capped = p.capped,
                    !.beat = @ + Max(patternLength(pattern), 1000) + spacing]
  ELSE [g EXCEPT !.s = RngStep(g.s), !.beat = SkipBeat(@)]

\* Math.round(n.t)
RoundT(t, bpm) == (2 * t + bpm) \div (2 * bpm)

\* After with the operands of each difference exchanged: a descending sort
AfterDescending(a, b) == a.t < b.t \/ (a.t = b.t /\ a.lane < b.lane)

\* the comparator of notes.sort: a.t - b.t || a.lane - b.lane, positive
After(a, b) == a.t > b.t \/ (a.t = b.t /\ a.lane > b.lane)

\* notes.sort(...): a stable sort, here by insertion
RECURSIVE InsertNote(_, _)
InsertNote(sorted, n) ==
  IF sorted = << >> THEN << n >>
  ELSE IF After(sorted[Len(sorted)], n)
       THEN LET front == SubSeq(sorted, 1, Len(sorted) - 1)
            IN CASE Evaluated(front) -> Append(InsertNote(front, n), sorted[Len(sorted)])
       ELSE Append(sorted, n)

RECURSIVE SortNotes(_, _)
SortNotes(notes, i) ==
  IF i = 0 THEN << >>
  ELSE LET front == SortNotes(notes, i - 1)
       IN CASE Evaluated(front) -> InsertNote(front, notes[i])

\* the dedup key of a note: `${Math.round(n.t)}-${n.lane}`
KeyOf(n, bpm) == << RoundT(n.t, bpm), n.lane >>

\* the pass that keeps the first note of each key
RECURSIVE Unique(_, _, _, _)
Unique(notes, bpm, i, seen) ==
  IF i > Len(notes) THEN << >>
  ELSE IF KeyOf(notes[i], bpm) \in seen THEN Unique(notes, bpm, i + 1, seen)
  ELSE LET next == seen \cup {KeyOf(notes[i], bpm)}
       IN CASE Evaluated(next) -> << notes[i] >> \o Unique(notes, bpm, i + 1, next)

\* what follows the loop: sort, drop duplicates, return
Finalize(notes, bpm) == Unique(SortNotes(notes, Len(notes)), bpm, 1, {})

\* the songs generateBeatMap is called on: title (char codes) and bpm
GenSong(title, bpm) == [title |-> title, bpm |-> bpm]

\* 'Tokyo Static', 149
TokyoStatic == GenSong(<< 84, 111, 107, 121, 111, 32, 83, 116, 97, 116, 105, 99 >>, 149)
\* 'Black Umbrella', 128
BlackUmbrella ==
  GenSong(<< 66, 108, 97, 99, 107, 32, 85, 109, 98, 114, 101, 108, 108, 97 >>, 128)
\* '3AM Izakaya', 105
Izakaya == GenSong(<< 51, 65, 77, 32, 73, 122, 97, 107, 97, 121, 97 >>, 105)
\* 'Rooftop District', 80
RooftopDistrict ==
  GenSong(<< 82, 111, 111, 102, 116, 111, 112, 32, 68, 105, 115, 116, 114, 105, 99, 116 >>, 80)

\* no call of generateBeatMap yet: the arguments only
GenArgs(song, duration) ==
  [phase |-> "idle", title |-> song.title, bpm |-> song.bpm, duration |-> duration,
   s |-> << 0, 0 >>, beat |-> 0, notes |-> << >>, out |-> << >>, prev |-> << >>,
   calls |-> 0, iters |-> 0, capped |-> 0]

\* generateBeatMap is not being called
NoCall == GenArgs(GenSong(<< >>, 0), Finite(0))

\* ---------------------------------------------------- double arithmetic
\* showResults computes the accuracy in IEEE doubles. A natural number is a
\* sequence of limbs of 15 bits, least significant first, without leading
\* zero limbs; a double d >= 0 is [m, e] with value m * 2^e, m of 53 bits
\* (or << >>, zero).
B15 == 32768

RECURSIVE LimbsOf(_)
LimbsOf(n) == IF n = 0 THEN << >> ELSE << n % B15 >> \o LimbsOf(n \div B15)

RECURSIVE IntOf(_, _)
IntOf(a, i) ==
  IF i > Len(a) THEN 0
  ELSE LET next == i + 1 IN CASE Evaluated(next) -> a[i] + B15 * IntOf(a, next)

Limb(a, i) == IF i \in DOMAIN a THEN a[i] ELSE 0

\* a without its leading zero limbs
RECURSIVE Trim(_)
Trim(a) ==
  IF a = << >> \/ a[Len(a)] # 0 THEN a
  ELSE LET front == SubSeq(a, 1, Len(a) - 1) IN CASE Evaluated(front) -> Trim(front)

\* a + b from limb i on, with carry
RECURSIVE AddFrom(_, _, _, _)
AddFrom(a, b, i, carry) ==
  IF i > Len(a) /\ i > Len(b) THEN LimbsOf(carry)
  ELSE LET sum == Limb(a, i) + Limb(b, i) + carry
           next == << i + 1, sum \div B15 >>
       IN CASE Evaluated(next) -> << sum % B15 >> \o AddFrom(a, b, next[1], next[2])

AddLimbs(a, b) == AddFrom(a, b, 1, 0)

\* a * n from limb i on with carry, n below 2^15
RECURSIVE MulFrom(_, _, _, _)
MulFrom(a, n, i, carry) ==
  IF i > Len(a) THEN LimbsOf(carry)
  ELSE LET product == a[i] * n + carry
           next == << i + 1, product \div B15 >>
       IN CASE Evaluated(next) -> << product % B15 >> \o MulFrom(a, n, next[1], next[2])

MulSmall(a, n) == IF n = 0 THEN << >> ELSE MulFrom(a, n, 1, 0)

\* a / t by long division from limb i down with remainder r, t below 2^15:
\* the quotient's limbs (leading zeros kept) and the final remainder
RECURSIVE DivFrom(_, _, _, _)
DivFrom(a, t, i, r) ==
  IF i = 0 THEN [q |-> << >>, r |-> r]
  ELSE LET r1 == r * B15 + a[i]
           next == << i - 1, r1 % t >>
       IN CASE Evaluated(next) ->
                 LET low == DivFrom(a, t, next[1], next[2])
                 IN CASE Evaluated(low) -> [q |-> Append(low.q, r1 \div t), r |-> low.r]

DivSmall(a, t) == LET d == DivFrom(a, t, Len(a), 0) IN [q |-> Trim(d.q), r |-> d.r]

\* the number of bits of a
BitLen(a) ==
  IF a = << >> THEN 0
  ELSE 15 * (Len(a) - 1)
         + (CHOOSE k \in 1..15 : Pow2(k - 1) <= a[Len(a)] /\ a[Len(a)] < Pow2(k))

\* a * 2^s
ShiftLeft(a, s) ==
  IF a = << >> THEN << >> ELSE [i \in 1..(s \div 15) |-> 0] \o MulSmall(a, Pow2(s % 15))

\* floor(a / 2^s)
ShiftRight(a, s) == DivSmall(SubSeq(a, (s \div 15) + 1, Len(a)), Pow2(s % 15)).q

Odd(a) == a # << >> /\ a[1] % 2 = 1

\* the double nearest a * 2^e (ties to even), sticky telling that a stands
\* for a value slightly above it
Round53(a, e, sticky) ==
  LET n == BitLen(a)
      s == n - 53
  IN IF n = 0 THEN [m |-> << >>, e |-> 0]
     ELSE IF n <= 53 THEN [m |-> ShiftLeft(a, 53 - n), e |-> e - (53 - n)]
     ELSE LET q == ShiftRight(a, s)
              q1 == ShiftRight(a, s - 1)
          IN CASE Evaluated(<< q, q1 >>) ->
                    LET rest == sticky \/ a # ShiftLeft(q1, s - 1)
                        up == Odd(q1) /\ (rest \/ Odd(q))
                        m == IF up THEN AddLimbs(q, << 1 >>) ELSE q
                    IN CASE Evaluated(m) ->
                              IF BitLen(m) = 54 THEN [m |-> ShiftRight(m, 1), e |-> e + s + 1]
                              ELSE [m |-> m, e |-> e + s]

\* the double of a small natural number
DoubleOf(n) == LET a == LimbsOf(n) IN CASE Evaluated(a) -> Round53(a, 0, FALSE)

\* x + y in doubles
AddD(x, y) ==
  IF x.m = << >> THEN y
  ELSE IF y.m = << >> THEN x
  ELSE LET e == Min(x.e, y.e)
           a == ShiftLeft(x.m, x.e - e)
           b == ShiftLeft(y.m, y.e - e)
       IN CASE Evaluated(<< a, b >>) ->
                 LET sum == AddLimbs(a, b)
                 IN CASE Evaluated(sum) -> Round53(sum, e, FALSE)

\* x * n in doubles, n a small natural number
MulD(x, n) ==
  LET product == MulSmall(x.m, n)
  IN CASE Evaluated(product) -> Round53(product, x.e, FALSE)

\* x / t in doubles, t a small natural number other than 0
DivD(x, t) ==
  LET a == ShiftLeft(x.m, 60)
  IN CASE Evaluated(a) ->
            LET d == DivSmall(a, t)
            IN CASE Evaluated(d) -> Round53(d.q, x.e - 60, d.r > 0)

\* Math.round(x): floor(x + 1/2), computed exactly
RoundD(x) ==
  IF x.m = << >> THEN 0
  ELSE IF x.e >= 0 THEN IntOf(ShiftLeft(x.m, x.e), 1)
  ELSE LET half == ShiftLeft(<< 1 >>, -x.e - 1)
       IN CASE Evaluated(half) ->
                 LET n == ShiftRight(AddLimbs(x.m, half), -x.e)
                 IN CASE Evaluated(n) -> IntOf(n, 1)

\* the literals 0.7 and 0.4: the doubles nearest 7/10 and 4/10
D07 == LET seven == DoubleOf(7) IN CASE Evaluated(seven) -> DivD(seven, 10)
D04 == LET four == DoubleOf(4) IN CASE Evaluated(four) -> DivD(four, 10)

\* the accuracy in exact arithmetic, a tie x.5 rounded up
AccuracyExact(stats) ==
  LET total == stats.perfect + stats.great + stats.good + stats.miss
  IN IF total > 0
     THEN (2 * 10 * (10 * stats.perfect + 7 * stats.great + 4 * stats.good) + total)
            \div (2 * total)
     ELSE 0

\* showResults: total > 0 ? Math.round(((stats.perfect + stats.great * 0.7
\* + stats.good * 0.4) / total) * 100) : 0
AccuracyOf(stats) ==
  LET total == stats.perfect + stats.great + stats.good + stats.miss
      terms == << DoubleOf(stats.perfect), MulD(D07, stats.great), MulD(D04, stats.good) >>
  IN IF total > 0
     THEN CASE Evaluated(terms) ->
            LET sum1 == AddD(terms[1], terms[2])
            IN CASE Evaluated(sum1) ->
                 LET sum == AddD(sum1, terms[3])
                 IN CASE Evaluated(sum) ->
                      LET quotient == DivD(sum, total)
                      IN CASE Evaluated(quotient) ->
                           LET x == MulD(quotient, 100)
                           IN CASE Evaluated(x) -> RoundD(x)
     ELSE 0

\* ------------------------------------------------------------ beat pulse
\* song.bpm of the songs of the runs
BpmOf(song) ==
  CASE song = "duo" -> 80
    [] song = "combo" -> 90
    [] song = "quad" -> 128
    [] OTHER -> 105

\* a % b of the code: the remainder has the sign of the dividend
Rem(a, b) == IF a >= 0 THEN a % b ELSE -((-a) % b)

RECURSIVE GCD(_, _)
GCD(a, b) ==
  IF b = 0 THEN a
  ELSE LET r == a % b IN CASE Evaluated(r) -> GCD(b, r)

\* gd.beatPulse = Math.pow(Math.max(0, 1 - ((elapsed % gd.beatMs) / gd.beatMs)
\* * 3.5), 2), as the fraction n / d in lowest terms. With beatMs = 60000 /
\* bpm, (elapsed % beatMs) / beatMs is (elapsed * bpm % 60000) / 60000, and
\* the base of the power is (120000 - 7 * (elapsed * bpm % 60000)) / 120000.
beatPulse(elapsed, bpm) ==
  LET top == Max(0, 120000 - 7 * Rem(elapsed * bpm, 60000))
      g == GCD(120000, top)
  IN [n |-> (top \div g) * (top \div g), d |-> (120000 \div g) * (120000 \div g)]

\* ------------------------------------------------------------ high scores
\* getGrade(accuracy)
getGrade(accuracy) ==
  IF accuracy >= 100 THEN "S+"
  ELSE IF accuracy >= 95 THEN "S"
  ELSE IF accuracy >= 90 THEN "A"
  ELSE IF accuracy >= 80 THEN "B"
  ELSE IF accuracy >= 70 THEN "C"
  ELSE IF accuracy >= 60 THEN "D"
  ELSE "F"

\* the object loadAllScores returns when the item is missing: {}. The item
\* is kept as the object it parses to, a function from the track titles
\* stored to their records: saveScore writes finite integers and plain
\* strings only, which JSON.stringify and JSON.parse give back as they were
NoScores == [track \in {} |-> 0]

Counters(perfect, great, good, miss) ==
  [perfect |-> perfect, great |-> great, good |-> good, miss |-> miss]

\* the record showResults passes to saveScore for a session of the given
\* score, maxCombo and counters. Its fields accuracy and grade are what
\* showResults computes from the counters: a record is kept without them,
\* and RecordAccuracy and RecordGrade give their values
ResultRecord(score, maxCombo, stats) ==
  [score |-> score, maxCombo |-> maxCombo,
   perfectCount |-> stats.perfect, greatCount |-> stats.great,
   goodCount |-> stats.good, missCount |-> stats.miss]

\* accuracy: acc
RecordAccuracy(record) ==
  AccuracyOf(Counters(record.perfectCount, record.greatCount, record.goodCount,
                      record.missCount))

\* grade: getGrade(acc)
RecordGrade(record) ==
  LET acc == RecordAccuracy(record) IN CASE Evaluated(acc) -> getGrade(acc)

\* IsNewScore with >= in place of >
IsNewScoreOrEqual(all, trackTitle, record) ==
  trackTitle \notin DOMAIN all \/ record.score >= all[trackTitle].score

\* saveScore's test: !existing || record.score > existing.score
IsNewScore(all, trackTitle, record) ==
  trackTitle \notin DOMAIN all \/ record.score > all[trackTitle].score

\* saveScore(trackTitle, record) on the item all, called at date: the value
\* returned and the item afterwards; full tells that localStorage.setItem
\* throws, which saveScore catches and ignores
saveScore(all, full, trackTitle, record, date) ==
  LET isNew == IsNewScore(all, trackTitle, record)
      written == [track \in DOMAIN all \cup {trackTitle} |->
                    IF track = trackTitle
                    THEN [score |-> record.score, maxCombo |-> record.maxCombo,
                          perfectCount |-> record.perfectCount,
                          greatCount |-> record.greatCount,
                          goodCount |-> record.goodCount,
                          missCount |-> record.missCount, date |-> date]
                    ELSE all[track]]
  IN [isNew |-> isNew, item |-> IF isNew /\ ~full THEN written ELSE all]

\* saveLog: n counts the calls of saveScore; track, record and isNew are the
\* arguments and the value returned of the last call; max gives, per track,
\* the greatest score a call was given; lost tells that a call's write was
\* dropped by a throwing setItem
NoSaves ==
  [n |-> 0, track |-> NoSong, record |-> ResultRecord(0, 0, ZeroStats), isNew |-> FALSE,
   max |-> NoScores, lost |-> FALSE]

\* a call of saveScore(trackTitle, record): the item and the log afterwards
SaveCall(trackTitle, record) ==
  LET r == saveScore(storage.item, storage.full, trackTitle, record, saveLog.n + 1)
  IN /\ storage' = [storage EXCEPT !.item = r.item]
     /\ saveLog' =
          [n |-> saveLog.n + 1, track |-> trackTitle, record |-> record, isNew |-> r.isNew,
           max |-> [track \in DOMAIN saveLog.max \cup {trackTitle} |->
                      IF track # trackTitle THEN saveLog.max[track]
                      ELSE IF track \in DOMAIN saveLog.max
                      THEN Max(saveLog.max[track], record.score)
                      ELSE record.score],
           lost |-> saveLog.lost \/ (r.isNew /\ storage.full)]

\* ------------------------------------------------- observation (history)
\* anchor0: gd.start as startGame set it; pausedSince: the clock reading when
\* paused last became true; pausedTotal: the time the session has spent paused;
\* streak: the non-miss judgments counted (by the stats counters) since the
\* miss counter last moved; playedAt: the clock reading at which audio.play()
\* last ran.
NonMiss(stats) == stats.perfect + stats.great + stats.good

Observe ==
  /\ streak' = IF session' # session THEN 0
               ELSE IF gd'.stats.miss > gd.stats.miss THEN 0
               ELSE streak + (NonMiss(gd'.stats) - NonMiss(gd.stats))
  /\ anchor0' = IF session' # session THEN gd'.start ELSE anchor0
  /\ pausedSince' = IF paused' /\ ~paused THEN now ELSE pausedSince
  /\ pausedTotal' = IF session' # session THEN 0
                    ELSE IF paused /\ ~paused' THEN pausedTotal + (now - pausedSince)
                    ELSE pausedTotal

\* -------------------------------------------------- background render loop
\* the pending frame callbacks of bgLoop: live tells that the callback _bgAF
\* names is pending, stray counts the pending ones _bgAF no longer names
NoBg == [live |-> FALSE, stray |-> 0]

\* this._bgAF = requestAnimationFrame(() => this.bgLoop())
RequestBg(b) == [live |-> TRUE, stray |-> b.stray + (IF b.live THEN 1 ELSE 0)]

\* a call of bgLoop() in view st: if (this.state === 'playing') return
bgLoop(b, st) == IF st = "playing" THEN b ELSE RequestBg(b)

\* cancelAnimationFrame(this._bgAF)
CancelBg(b) == [b EXCEPT !.live = FALSE]

\* a display frame in view st: every pending callback of bgLoop runs; while
\* playing each returns, otherwise each draws and requests the next frame
BgFrameResult(b, st) == IF st = "playing" THEN NoBg ELSE b

\* init(): this.showLobby(), which ends in bgLoop(), then this.bgLoop()
BgAfterInit == bgLoop(bgLoop(NoBg, "lobby"), "lobby")

\* ------------------------------------------------------------------ actions
\* the page just opened on the lobby, whatever the catalog
PageOpened ==
  /\ now = 0
  /\ state = "lobby"
  /\ paused = FALSE
  /\ pauseTime = 0
  /\ selectedSong = CHOOSE song \in catalog : TRUE
  /\ gd = NoGd
  /\ buffer = NoSong
  /\ audio = [playing |-> FALSE, startTime |-> 0]
  /\ ctxSuspended = FALSE
  /\ ctxTime = 0
  /\ timers = {}
  /\ gameAF = FALSE
  /\ strayAF = 0
  /\ session = 0
  /\ anchor0 = 0
  /\ pausedSince = 0
  /\ pausedTotal = 0
  /\ streak = 0
  /\ endScheduled = 0
  /\ pauses = 0
  /\ playedAt = 0
  /\ bg = BgAfterInit
  /\ storage = [item |-> NoScores, full |-> FALSE]
  /\ saveLog = NoSaves
  /\ loads = << >>

InitGame == catalog \in {{song} : song \in SONGS} /\ PageOpened

Init == InitGame /\ gen = NoCall

\* the host clock moves on to a later instant of the run; a timer fires at
\* the first instant at or after its due time, so the clock never moves past
\* that instant while the timer is pending; the audio context's clock follows
\* the host clock unless the context is suspended
AdvanceTime ==
  /\ \E t \in InstantsOf(catalog) :
       /\ t > now
       /\ \A tm \in timers : \A u \in InstantsOf(catalog) : ~(tm.due <= u /\ u < t)
       /\ now' = t
       /\ ctxTime' = IF ctxSuspended THEN ctxTime ELSE ctxTime + (t - now)
  /\ UNCHANGED << catalog, state, paused, pauseTime, selectedSong, gd, buffer, audio,
                  ctxSuspended, timers, gameAF, strayAF, session, endScheduled, pauses >>
  /\ UNCHANGED << playedAt, gen, bg, storage, saveLog, loads >>
  /\ Observe

\* a direct call of gameLoop() or a frame callback: g, st, pz are gd, state and
\* paused as the caller left them, T the timers, live/stray the pending frame
\* callbacks, ends the count of showResults timers set for this gd
RunGameLoop(g, st, pz, T, live, stray, ends) ==
  IF LoopRuns(st, pz)
  THEN LET r == LoopResult(g, now, audio.playing)
       IN /\ gd' = r.gd
          /\ timers' = T \cup ResultTimers(r.sched, now)
          /\ endScheduled' = ends + Len(r.sched)
          /\ gameAF' = TRUE
          /\ strayAF' = stray + (IF live THEN 1 ELSE 0)
          /\ strayAF' <= MaxStray
  ELSE /\ gd' = g
       /\ timers' = T
       /\ endScheduled' = ends
       /\ gameAF' = live
       /\ strayAF' = stray

\* selectSong(index) from a lobby card: showView('loading'), audio.resume(),
\* loadSong's stop() and buffer = null, then the fetch, decode and 400 ms wait
\* as a pending continuation
SelectSong ==
  /\ state = "lobby"
  /\ session < MaxSessions
  /\ \E song \in catalog :
       /\ selectedSong' = song
       /\ timers' = timers \cup {Timer("start", now + 400, song)}
  /\ state' = "loading"
  /\ paused' = FALSE
  /\ buffer' = NoSong
  /\ audio' = [audio EXCEPT !.playing = FALSE]
  /\ ctxSuspended' = FALSE
  /\ UNCHANGED << catalog, now, pauseTime, gd, ctxTime, gameAF, strayAF,
                  session, endScheduled, pauses >>
  /\ UNCHANGED << playedAt, gen, bg, storage, saveLog, loads >>
  /\ Observe

\* startGame(song)
StartGame(song, T) ==
  /\ session < MaxSessions
  /\ session' = session + 1
  /\ pauses' = 0
  /\ state' = "playing"
  /\ bg' = CancelBg(bg)
  /\ UNCHANGED << paused, audio >>
  /\ RunGameLoop(NewGd(song, now), "playing", paused,
                 T \cup {Timer("play", now + ARM_DELAY, NoSong)}, gameAF, strayAF, 0)

\* the continuation of selectSong: the buffer is decoded and startGame runs
LoadComplete ==
  /\ \E tm \in timers :
       /\ tm.kind = "start"
       /\ now >= tm.due
       /\ buffer' = tm.song
       /\ StartGame(tm.song, timers \ {tm})
  /\ UNCHANGED << catalog, now, pauseTime, selectedSong, ctxSuspended, ctxTime >>
  /\ UNCHANGED << playedAt, gen, storage, saveLog, loads >>
  /\ Observe

\* the 800 ms timer of startGame: if (this.state === 'playing') this.audio.play()
AudioTimer ==
  /\ \E tm \in timers :
       /\ tm.kind = "play"
       /\ now >= tm.due
       /\ timers' = timers \ {tm}
  /\ audio' = IF state = "playing" /\ buffer # NoSong
              THEN [playing |-> TRUE, startTime |-> ctxTime]
              ELSE audio
  /\ UNCHANGED << catalog, now, state, paused, pauseTime, selectedSong, gd, buffer,
                  ctxSuspended, ctxTime, gameAF, strayAF, session, endScheduled, pauses >>
  /\ playedAt' = IF state = "playing" /\ buffer # NoSong THEN now ELSE playedAt
  /\ UNCHANGED << gen, bg, storage, saveLog, loads >>
  /\ Observe

\* source.onended: the buffer has played to its end
AudioEnded ==
  /\ audio.playing
  /\ ctxTime - audio.startTime >= DurationOf(buffer)
  /\ audio' = [audio EXCEPT !.playing = FALSE]
  /\ UNCHANGED << catalog, now, state, paused, pauseTime, selectedSong, gd, buffer,
                  ctxSuspended, ctxTime, timers, gameAF, strayAF, session,
                  endScheduled, pauses >>
  /\ UNCHANGED << playedAt, gen, bg, storage, saveLog, loads >>
  /\ Observe

\* tryHit(lane)
\* tryHit(lane) at the present clock reading: the session it leaves
Pressed(lane) == IF HitIgnored(gd, paused) THEN gd ELSE HitResult(gd, lane, now)

TryHitLane(lane) ==
  /\ gd' = Pressed(lane)
  /\ UNCHANGED << catalog, now, state, paused, pauseTime, selectedSong, buffer, audio,
                  ctxSuspended, ctxTime, timers, gameAF, strayAF, session,
                  endScheduled, pauses >>
  /\ UNCHANGED << playedAt, gen, bg, storage, saveLog, loads >>
  /\ Observe

TryHit == \E lane \in LANES : TryHitLane(lane)

\* a pending animation-frame callback runs gameLoop: the one _gameAF names
\* (live) or an older one
GameLoop ==
  /\ \E which \in {"live", "stray"} :
       /\ which = "live" => gameAF
       /\ which = "stray" => strayAF > 0
       /\ RunGameLoop(gd, state, paused, timers,
                      IF which = "live" THEN FALSE ELSE gameAF,
                      IF which = "stray" THEN strayAF - 1 ELSE strayAF,
                      endScheduled)
  /\ UNCHANGED << catalog, now, state, paused, pauseTime, selectedSong, buffer, audio,
                  ctxSuspended, ctxTime, session, pauses >>
  /\ UNCHANGED << playedAt, gen, bg, storage, saveLog, loads >>
  /\ Observe

\* PauseIgnored without the test of the view
PauseIgnoredIfPaused(pz, st) == pz

\* pauseGame's guard: if (this.paused || this.state !== 'playing') return
PauseIgnored(pz, st) == pz \/ st # "playing"

\* resumeGame's guard: if (!this.paused) return
ResumeIgnored(pz) == ~pz

\* pauseGame()
PauseGame ==
  /\ IF PauseIgnored(paused, state)
     THEN UNCHANGED << paused, pauseTime, gameAF, ctxSuspended, pauses >>
     ELSE /\ pauses < MaxPauses
          /\ pauses' = pauses + 1
          /\ paused' = TRUE
          /\ pauseTime' = now
          /\ gameAF' = FALSE
          /\ ctxSuspended' = TRUE
  /\ UNCHANGED << catalog, now, state, selectedSong, gd, buffer, audio, ctxTime, timers,
                  strayAF, session, endScheduled >>
  /\ UNCHANGED << playedAt, gen, bg, storage, saveLog, loads >>
  /\ Observe

\* resumeGame()
ResumeGame ==
  /\ IF ResumeIgnored(paused)
     THEN UNCHANGED << paused, gd, ctxSuspended, timers, gameAF, strayAF, endScheduled >>
     ELSE /\ paused' = FALSE
          /\ ctxSuspended' = FALSE
          /\ RunGameLoop([gd EXCEPT !.start = ResumedStart(@, now, pauseTime)], state, FALSE,
                         timers, gameAF, strayAF, endScheduled)
  /\ UNCHANGED << catalog, now, state, pauseTime, selectedSong, buffer, audio, ctxTime,
                  session, pauses >>
  /\ UNCHANGED << playedAt, gen, bg, storage, saveLog, loads >>
  /\ Observe

\* _quitToTracks(), reached from the pause overlay
QuitToTracks ==
  /\ paused
  /\ paused' = FALSE
  /\ audio' = [audio EXCEPT !.playing = FALSE]
  /\ ctxSuspended' = FALSE
  /\ gameAF' = FALSE
  /\ state' = "lobby"
  /\ UNCHANGED << catalog, now, pauseTime, selectedSong, gd, buffer, ctxTime, timers,
                  strayAF, session, endScheduled, pauses >>
  /\ bg' = bgLoop(bg, "lobby")
  /\ UNCHANGED << playedAt, gen, storage, saveLog, loads >>
  /\ Observe

\* a showResults timer fires
ShowResults ==
  /\ \E tm \in timers :
       /\ tm.kind = "results"
       /\ now >= tm.due
       /\ timers' = timers \ {tm}
  /\ audio' = [audio EXCEPT !.playing = FALSE]
  /\ gameAF' = FALSE
  /\ state' = "results"
  /\ paused' = FALSE
  /\ UNCHANGED << catalog, now, pauseTime, selectedSong, gd, buffer, ctxSuspended, ctxTime,
                  strayAF, session, endScheduled, pauses >>
  /\ bg' = bgLoop(bg, "results")
  /\ SaveCall(gd.song, ResultRecord(gd.score, gd.maxCombo, gd.stats))
  /\ UNCHANGED << playedAt, gen, loads >>
  /\ Observe

\* _retrySong() from the results screen, the buffer being loaded
RetrySong ==
  /\ state = "results"
  /\ buffer # NoSong
  /\ StartGame(selectedSong, timers)
  /\ UNCHANGED << catalog, now, pauseTime, selectedSong, buffer, ctxSuspended, ctxTime >>
  /\ UNCHANGED << playedAt, gen, storage, saveLog, loads >>
  /\ Observe

\* showLobby() from the results screen
ShowLobby ==
  /\ state = "results"
  /\ state' = "lobby"
  /\ paused' = FALSE
  /\ UNCHANGED << catalog, now, pauseTime, selectedSong, gd, buffer, audio, ctxSuspended,
                  ctxTime, timers, gameAF, strayAF, session, endScheduled, pauses >>
  /\ bg' = bgLoop(bg, "lobby")
  /\ UNCHANGED << playedAt, gen, storage, saveLog, loads >>
  /\ Observe

Next ==
  \/ AdvanceTime
  \/ SelectSong
  \/ LoadComplete
  \/ AudioTimer
  \/ AudioEnded
  \/ TryHit
  \/ GameLoop
  \/ PauseGame
  \/ ResumeGame
  \/ QuitToTracks
  \/ ShowResults
  \/ RetrySong
  \/ ShowLobby

Spec == Init /\ [][Next]_vars

\* ------------------------------------------------------------------ claims
\* what the claims read of a session
SessionFields(g) == << g.score, g.combo, g.maxCombo, g.hp, g.stats, g.judg, g.notes >>

\* a step inside one session: gd exists and startGame does not run
InSession == gd # NoGd /\ session' = session

Elapsed == now - gd.start

\* the indices of the notes whose hit flag this step sets
NewlyHit == {i \in DOMAIN gd.notes : ~gd.notes[i].hit /\ gd'.notes[i].hit}

\* the indices of the notes whose missed flag this step sets
NewlyMissed == {i \in DOMAIN gd.notes : ~gd.notes[i].missed /\ gd'.notes[i].missed}

\* C1 (combo reset law): in a session combo equals the number of non-miss
\* judgments counted since the last miss (or since the session started), so it
\* is 0 right after a miss; a step changes combo only to combo + 1, with a
\* non-miss judgment, or to 0, with a miss.
C1_ComboResetLaw ==
  /\ [](gd # NoGd => gd.combo = streak /\ (gd.judg = "MISS" => gd.combo = 0))
  /\ [][InSession =>
          /\ gd'.stats.miss > gd.stats.miss => gd'.combo = 0
          /\ (gd'.stats.miss = gd.stats.miss /\ NonMiss(gd'.stats) = NonMiss(gd.stats) + 1)
               => gd'.combo = gd.combo + 1
          /\ gd'.combo # gd.combo => gd'.combo = 0 \/ gd'.combo = gd.combo + 1]_vars

\* a miss has reset the combo and a later hit has started a new streak
C1_Witness == gd.stats.miss >= 1 /\ gd.maxCombo >= 1 /\ gd.combo = 1 /\ streak = 1

\* C2 (score monotonicity): in a session the score never decreases; it changes
\* only in a step that counts exactly one non-miss judgment, and then by the
\* judgment's base points (350 / 200 / 100) times 1 + floor(combo / 10), combo
\* being the combo that judgment leaves; every other step leaves it unchanged.
C2_ScoreMonotone ==
  [][InSession =>
       LET dP == gd'.stats.perfect - gd.stats.perfect
           dG == gd'.stats.great - gd.stats.great
           dK == gd'.stats.good - gd.stats.good
       IN /\ gd'.score >= gd.score
          /\ dP + dG + dK = 0 => gd'.score = gd.score
          /\ dP + dG + dK # 0 =>
               /\ dP \in {0, 1} /\ dG \in {0, 1} /\ dK \in {0, 1}
               /\ dP + dG + dK = 1
               /\ gd'.stats.miss = gd.stats.miss
               /\ gd'.score = gd.score + (PTS_p * dP + PTS_g * dG + PTS_k * dK)
                                           * (1 + (gd'.combo \div COMBO_STEP))]_vars

\* ten perfect hits in a row: nine counted once and the tenth counted twice
C2_Witness == gd.stats.perfect = 10 /\ gd.maxCombo = 10 /\ gd.score = 9 * PTS_p + 2 * PTS_p

\* C3: from combo 0, after ten consecutive perfect hits combo is 10 and the
\* score is 10 x 350, each hit having counted once.
C3_TenPerfectsAtBase ==
  (gd.stats = [perfect |-> 10, great |-> 0, good |-> 0, miss |-> 0] /\ gd.combo = 10)
    => gd.score = 10 * PTS_p

\* C4: once health is 0 in a session, no step of that session raises it again.
C4_NoRevival == [][(InSession /\ gd.hp = 0) => gd'.hp = 0]_vars

\* C5: once done is set, no step of the session changes score, combo, maxCombo,
\* health, the counters, the last-judgment label or a note's flags.
C5_DoneFreezes == [][(InSession /\ gd.done) => SessionFields(gd') = SessionFields(gd)]_vars

\* C6: in a session done never returns to false, and the number of showResults
\* timers the session has set is 1 once done is set and 0 before.
C6_EndsOnce ==
  /\ [](gd # NoGd => endScheduled = (IF gd.done THEN 1 ELSE 0))
  /\ [][(InSession /\ gd.done) => gd'.done]_vars

\* health is exhausted and the song has ended, in a session that is done
C6_Witness ==
  /\ gd.done /\ gd.hp = 0
  /\ ~audio.playing /\ Elapsed > END_AFTER
  /\ endScheduled = 1

\* C7 as stated: a step that marks a note hit judges it perfect, great or good:
\* it adds 1 to combo, does not lower health and leaves the miss counter.
C7_PressNeverMisses ==
  [][(InSession /\ NewlyHit # {}) =>
       /\ gd'.judg \in {"PERFECT", "GREAT", "GOOD"}
       /\ gd'.combo = gd.combo + 1
       /\ gd'.hp >= gd.hp
       /\ gd'.stats.miss = gd.stats.miss]_vars

\* C7 amended: a step that marks a note hit marks exactly one, at a distance
\* d <= 190 ms; with d <= 150 it is judged perfect, great or good (combo + 1,
\* health + 0.8 up to 100, miss counter unchanged); with 150 < d <= 190 it is
\* judged a miss (combo 0, health - 4 down to 0, miss counter + 1, score
\* unchanged).
C7_PressJudgedByDistance ==
  [][(InSession /\ NewlyHit # {}) =>
       \E i \in NewlyHit :
         LET d == Abs(Elapsed - gd.notes[i].t)
         IN /\ NewlyHit = {i}
            /\ d <= WIN_k + HIT_GRACE
            /\ d <= WIN_k =>
                 /\ gd'.judg \in {"PERFECT", "GREAT", "GOOD"}
                 /\ gd'.combo = gd.combo + 1
                 /\ gd'.hp = Min(HP_FULL, gd.hp + HP_HIT)
                 /\ gd'.stats.miss = gd.stats.miss
            /\ d > WIN_k =>
                 /\ gd'.judg = "MISS"
                 /\ gd'.combo = 0
                 /\ gd'.hp = Max(0, gd.hp - HP_MISS)
                 /\ gd'.stats.miss = gd.stats.miss + 1
                 /\ gd'.score = gd.score]_vars

\* a press 160 ms off has marked its note hit and was judged a miss, and a
\* press 150 ms off was judged good
C7_Witness ==
  /\ gd.stats.miss = 1 /\ gd.stats.good = 1
  /\ \A i \in DOMAIN gd.notes : gd.notes[i].hit
  /\ Len(gd.notes) = 2

\* the lane has no pending note within the outer window of a press now
NoneInWindow(lane) ==
  \A i \in DOMAIN gd.notes :
    (gd.notes[i].lane = lane /\ Pending(gd.notes[i]))
      => Abs(Elapsed - gd.notes[i].t) > WIN_k + HIT_GRACE

\* C8: in every reachable state, a press of a lane that has no pending note
\* within the outer window (150 + 40 ms) leaves the session as it is: score,
\* combo, maxCombo, health, counters, label and every note's flags.
C8_UnmatchedPressNoOp ==
  gd # NoGd => \A lane \in LANES : NoneInWindow(lane) => Pressed(lane) = gd

\* a running session in which lane 0 has a pending note 210 ms away, after
\* another press has been judged
C8_Witness ==
  /\ state = "playing" /\ ~paused /\ ~gd.done /\ gd # NoGd
  /\ gd.judg = "PERFECT"
  /\ \E i \in DOMAIN gd.notes :
       /\ gd.notes[i].lane = 0 /\ Pending(gd.notes[i])
       /\ Elapsed - gd.notes[i].t = WIN_k + MISS_GRACE

C10_PausedFreezes ==
  /\ [][(InSession /\ paused /\ paused') => SessionFields(gd') = SessionFields(gd)]_vars
  /\ [][InSession =>
          \A i \in NewlyMissed :
            (now - anchor0) - pausedTotal' > gd.notes[i].t + WIN_k + MISS_GRACE]_vars

\* a note has timed out in a session that was paused for some time and resumed
C10_Witness ==
  /\ state = "playing" /\ ~paused /\ pausedTotal > 0
  /\ \E i \in DOMAIN gd.notes : gd.notes[i].missed /\ gd.judgT >= pausedSince + pausedTotal

\* AudioManager.currentTime while playing: ctx.currentTime - startTime
AudioPos == ctxTime - audio.startTime

\* C11: while a session runs unpaused with its audio playing, the audio having
\* been started by the 800 ms timer at the reading it was set for, the audio
\* position equals the elapsed time, whatever pauses came before.
C11_AudioInSync ==
  (gd # NoGd /\ state = "playing" /\ ~paused /\ audio.playing /\ playedAt = anchor0)
    => AudioPos = Elapsed

\* the last note of the chart
LastNote(g) == g.notes[Len(g.notes)]

\* C12: a step sets done only if health is 0 after it, or if the audio is
\* not playing and the elapsed time exceeds the last note's time by more than
\* the trailing grace (3000 ms).
C12_EndNeedsBoth ==
  [][(InSession /\ ~gd.done /\ gd'.done) =>
       \/ gd'.hp <= 0
       \/ /\ ~audio.playing
          /\ Len(gd.notes) > 0
          /\ now - gd'.start > LastNote(gd).t + END_AFTER]_vars

\* C13 (note lifecycle): no note is both hit and missed; within a session the
\* chart keeps its length and every note its time and lane, a flag that is set
\* stays set, and a note that is hit or missed is not touched again.
C13_NoteLifecycle ==
  /\ [](\A i \in DOMAIN gd.notes : ~(gd.notes[i].hit /\ gd.notes[i].missed))
  /\ [][InSession =>
          /\ Len(gd'.notes) = Len(gd.notes)
          /\ \A i \in DOMAIN gd.notes :
               /\ gd'.notes[i].t = gd.notes[i].t
               /\ gd'.notes[i].lane = gd.notes[i].lane
               /\ gd.notes[i].hit => gd'.notes[i].hit
               /\ gd.notes[i].missed => gd'.notes[i].missed
               /\ ~Pending(gd.notes[i]) => gd'.notes[i] = gd.notes[i]]_vars

\* two notes of one lane were hit by successive presses and a third note has
\* timed out since
C13_Witness ==
  /\ \E i, j \in DOMAIN gd.notes :
       /\ i < j /\ gd.notes[i].lane = gd.notes[j].lane
       /\ gd.notes[i].hit /\ gd.notes[j].hit
  /\ \E k \in DOMAIN gd.notes : gd.notes[k].missed

\* the notes of the session that have been judged
Judged(g) == {i \in DOMAIN g.notes : g.notes[i].hit \/ g.notes[i].missed}

\* C14: in every state the four counters add up to the number of notes whose
\* hit or missed flag is set.
C14_OneCountPerJudgment ==
  gd.stats.perfect + gd.stats.great + gd.stats.good + gd.stats.miss
    = Cardinality(Judged(gd))

\* a press judged a miss has marked its note hit, a perfect press another,
\* and further notes have timed out
C14_Witness ==
  /\ gd.stats.miss >= 2 /\ gd.stats.perfect = 1
  /\ \E i, j, k \in DOMAIN gd.notes :
       /\ i # j /\ gd.notes[i].hit /\ gd.notes[j].hit /\ gd.notes[k].missed
  /\ Cardinality({i \in DOMAIN gd.notes : gd.notes[i].missed}) = gd.stats.miss - 1

\* C15: health stays within [0, 100] and the score is never negative; a
\* session starts at health 100; within a session a step that counts a
\* non-miss judgment adds 0.8 capped at 100, a step that counts misses
\* subtracts 4 for each, floored at 0, and every other step leaves health as
\* it is.
C15_HealthBounds ==
  /\ [](gd.hp \in 0..HP_FULL /\ gd.score >= 0)
  /\ [][session' # session => gd'.hp = HP_FULL]_vars
  /\ [][InSession =>
          LET dm == gd'.stats.miss - gd.stats.miss
              dn == NonMiss(gd'.stats) - NonMiss(gd.stats)
          IN /\ (dm = 0 /\ dn = 0) => gd'.hp = gd.hp
             /\ dn # 0 => (dn = 1 /\ dm = 0 /\ gd'.hp = Min(HP_FULL, gd.hp + HP_HIT))
             /\ dm # 0 => (dm > 0 /\ dn = 0 /\ gd'.hp = Max(0, gd.hp - HP_MISS * dm))]_vars

\* a perfect hit at full health left it at 100, and 25 misses then took it to
\* exactly 0
C15_Witness ==
  /\ gd.stats.perfect = 1 /\ gd.stats.great = 0 /\ gd.stats.good = 0
  /\ gd.stats.miss = 25 /\ gd.hp = 0

\* C16 (timeout miss): a frame that runs marks missed every pending note whose
\* time lies more than 150 + 60 ms before the elapsed time; a step marks
\* missed only such notes, none of them within 190 ms of the elapsed time, and
\* a step that marks k > 0 notes missed sets combo to 0, subtracts 4 k from
\* health (floored at 0), adds k to the miss counter and leaves the score.
C16_TimeoutMiss ==
  /\ [][(GameLoop /\ LoopRuns(state, paused)) =>
          \A i \in DOMAIN gd.notes :
            (Pending(gd.notes[i]) /\ Elapsed > gd.notes[i].t + 210)
              => gd'.notes[i].missed]_vars
  /\ [][InSession =>
          LET k == Cardinality(NewlyMissed)
              el == now - gd'.start
          IN /\ \A i \in NewlyMissed :
                  /\ Pending(gd.notes[i])
                  /\ el > gd.notes[i].t + 210
                  /\ Abs(el - gd.notes[i].t) > 190
             /\ k > 0 =>
                  /\ gd'.combo = 0
                  /\ gd'.hp = Max(0, gd.hp - 4 * 10 * k)
                  /\ gd'.stats.miss = gd.stats.miss + k
                  /\ gd'.score = gd.score
                  /\ gd'.judg = "MISS"]_vars

\* a frame 220 ms after the first note's time has just marked it missed (one
\* miss, combo 0, health 96) and the second note, 60 ms past, is pending
C16_Witness ==
  /\ Len(gd.notes) = 2 /\ Elapsed = gd.notes[1].t + 220
  /\ gd.notes[1].missed /\ Pending(gd.notes[2])
  /\ gd.judgT = now /\ gd.stats.miss = 1 /\ gd.combo = 0 /\ gd.hp = HP_FULL - HP_MISS
  /\ pausedTotal = 0 /\ strayAF = 0 /\ gameAF

Touched(before, after) == {i \in DOMAIN before : after[i] # before[i]}

\* C18 (note selection): in every state, a press of a lane that changes any
\* note changes exactly one, setting its hit flag only; that note is a pending
\* note of the pressed lane, no pending note of the lane is closer to the
\* elapsed time, and none equally close is scheduled earlier.
C18_ClosestEarliest ==
  gd # NoGd =>
    \A lane \in LANES :
      LET after == Pressed(lane).notes
          touched == Touched(gd.notes, after)
      IN touched # {} =>
           \E i \in touched :
             /\ touched = {i}
             /\ gd.notes[i].lane = lane /\ Pending(gd.notes[i])
             /\ after[i] = [gd.notes[i] EXCEPT !.hit = TRUE]
             /\ \A j \in DOMAIN gd.notes :
                  (gd.notes[j].lane = lane /\ Pending(gd.notes[j]) /\ j # i) =>
                    \/ Abs(Elapsed - gd.notes[i].t) < Abs(Elapsed - gd.notes[j].t)
                    \/ /\ Abs(Elapsed - gd.notes[i].t) = Abs(Elapsed - gd.notes[j].t)
                       /\ gd.notes[i].t < gd.notes[j].t

\* a press has just taken the earlier of two notes of lane 0 that were both
\* 50 ms from the elapsed time; the later one is pending
C18_Witness ==
  /\ Len(gd.notes) = 10 /\ Elapsed = 3050 /\ gd.judgT = now
  /\ gd.notes[4].hit /\ gd.notes[1].hit /\ Pending(gd.notes[7])
  /\ gd.notes[1].lane = 0 /\ gd.notes[7].lane = 0
  /\ gd.notes[1].t = 3000 /\ gd.notes[7].t = 3100
  /\ gd.stats.perfect = 2

\* C19: a step that marks a note hit at distance d judges it perfect for
\* d <= 50, great for 50 < d <= 100 and good for 100 < d <= 150, counting it in
\* that counter; and when d = 0 and the combo before the press is below 10 it
\* adds exactly 350 to the score.
C19_WindowsAndPoints ==
  [][(InSession /\ NewlyHit # {}) =>
       \E i \in NewlyHit :
         LET d == Abs(Elapsed - gd.notes[i].t)
         IN /\ d <= 50 => (gd'.judg = "PERFECT" /\ gd'.stats.perfect = gd.stats.perfect + 1)
            /\ (50 < d /\ d <= 100) =>
                 (gd'.judg = "GREAT" /\ gd'.stats.great = gd.stats.great + 1)
            /\ (100 < d /\ d <= 150) =>
                 (gd'.judg = "GOOD" /\ gd'.stats.good = gd.stats.good + 1)
            /\ (d = 0 /\ gd.combo < COMBO_STEP) => gd'.score = gd.score + 350]_vars

\* C20: in every state where no session exists or the game is paused, a
\* press of any lane leaves the session, its notes included, as it is.
C20_PressIgnored ==
  (gd = NoGd \/ paused) => \A lane \in LANES : Pressed(lane) = gd

\* the game is paused on the playing view, the session is not done, and a
\* pending note is within the tightest window of the elapsed time
C20_Witness ==
  /\ state = "playing" /\ paused /\ gd # NoGd /\ ~gd.done
  /\ \E i \in DOMAIN gd.notes :
       Pending(gd.notes[i]) /\ Abs(Elapsed - gd.notes[i].t) <= WIN_p

\* C21: in every state where the view is not playing or the game is already
\* paused, pauseGame changes nothing (the recorded pause instant included), and
\* in every state where the game is not paused, resumeGame changes nothing (no
\* shift of the start anchor, no frame loop).
C21_PauseResumeNoOps ==
  /\ (paused \/ state # "playing") => ~ENABLED (PauseGame /\ vars' # vars)
  /\ ~paused => ~ENABLED (ResumeGame /\ vars' # vars)

\* the game has been paused for some time on the playing view, where a second
\* pauseGame would record a later instant
C21_Witness ==
  /\ state = "playing" /\ paused /\ gd # NoGd /\ ~gd.done
  /\ now > pauseTime /\ pauseTime = pausedSince

\* ------------------------------------------------- failing feedback calls
\* tryHit and gameLoop call the feedback sinks (audio.playHit, audio.playMiss,
\* effects.triggerHit, effects.triggerMiss, effects.updateComboFire,
\* effects.triggerComboMilestone, effects.update) outside any try block, so a
\* sink that throws ends the handler at the call.

\* tryHit when a feedback call of the judgment's branch throws: what precedes
\* the call is written, gd.judg and gd.judgT (after both branches) are not
HitResultAborted(g, lane, t) ==
  LET r == HitResult(g, lane, t)
  IN [r EXCEPT !.judg = g.judg, !.judgT = g.judgT]

\* the first note the frame loop's pass finds overdue, 0 when there is none
RECURSIVE FirstOverdue(_, _, _)
FirstOverdue(notes, elapsed, i) ==
  IF i > Len(notes) THEN 0
  ELSE IF Overdue(notes[i], elapsed) THEN i
  ELSE FirstOverdue(notes, elapsed, i + 1)

\* gameLoop when a feedback call throws: effects.update(now) before the pass
\* over the notes, or effects.updateComboFire(0) at the end of the block of
\* the first overdue note
LoopAborted(g, t, at) ==
  LET i == FirstOverdue(g.notes, t - g.start, 1)
  IN IF at = "updateComboFire" /\ i # 0
     THEN MissEffects([g EXCEPT !.notes[i].missed = TRUE], t)
     ELSE g

\* tryHit(lane) reaches a feedback call and the call throws
TryHitThrows ==
  /\ \E lane \in LANES :
       /\ ~HitIgnored(gd, paused)
       /\ HitResult(gd, lane, now) # gd
       /\ gd' = HitResultAborted(gd, lane, now)
  /\ UNCHANGED << catalog, now, state, paused, pauseTime, selectedSong, buffer, audio,
                  ctxSuspended, ctxTime, timers, gameAF, strayAF, session,
                  endScheduled, pauses >>
  /\ UNCHANGED << playedAt, gen, bg, storage, saveLog, loads >>
  /\ Observe

\* a frame callback runs gameLoop past its guard and a feedback call throws:
\* the frame ends there, before requestAnimationFrame
GameLoopThrows ==
  /\ LoopRuns(state, paused)
  /\ \E which \in {"live", "stray"}, at \in {"update", "updateComboFire"} :
       /\ which = "live" => gameAF
       /\ which = "stray" => strayAF > 0
       /\ at = "updateComboFire" => FirstOverdue(gd.notes, now - gd.start, 1) # 0
       /\ gd' = LoopAborted(gd, now, at)
       /\ gameAF' = (IF which = "live" THEN FALSE ELSE gameAF)
       /\ strayAF' = (IF which = "stray" THEN strayAF - 1 ELSE strayAF)
  /\ UNCHANGED << catalog, now, state, paused, pauseTime, selectedSong, buffer, audio,
                  ctxSuspended, ctxTime, timers, session, endScheduled, pauses >>
  /\ UNCHANGED << playedAt, gen, bg, storage, saveLog, loads >>
  /\ Observe

NextFb ==
  \/ Next
  \/ TryHitThrows
  \/ GameLoopThrows

\* the game with feedback sinks that may throw, on the two-note chart
InitFb == Init /\ catalog = {"duo"}

SpecFb == InitFb /\ [][NextFb]_vars

\* C22 (feedback failures do not abort judgment processing): a step that sets
\* a note's hit or missed flag also leaves the last-judgment timestamp at the
\* present clock reading and the last-judgment label at the judgment counted,
\* and while the view is playing and not paused a frame callback is pending.
C22_FeedbackFailureHarmless ==
  /\ [](LoopRuns(state, paused) => gameAF)
  /\ [][InSession /\ (NewlyHit \cup NewlyMissed) # {}
          => /\ gd'.judgT = now
             /\ gd'.stats.miss > gd.stats.miss => gd'.judg = "MISS"
             /\ gd'.stats.miss = gd.stats.miss => gd'.judg \in {"PERFECT", "GREAT", "GOOD"}]_vars

\* ------------------------------------------- generateBeatMap as a machine
\* generateBeatMap(song, durationSec) is entered: the locals are set up
GenCall ==
  /\ gen.phase = "idle" \/ (gen.phase = "done" /\ gen.calls < MaxCalls)
  /\ gen' = [gen EXCEPT !.phase = "loop",
                        !.s = createRNG(hashString(gen.title), gen.s),
                        !.beat = 0, !.notes = << >>, !.iters = 0, !.capped = 0,
                        !.prev = gen.out, !.calls = @ + 1]
  /\ UNCHANGED << gameVars, bg, storage, saveLog, loads >>

\* one iteration of the while loop
GenIterate ==
  /\ gen.phase = "loop"
  /\ BeatsLeft(gen.beat, totalBeatsOf(gen.bpm, gen.duration))
  /\ gen.iters < MaxIters
  /\ gen' = [Iterate(gen) EXCEPT !.iters = @ + 1]
  /\ UNCHANGED << gameVars, bg, storage, saveLog, loads >>

\* the loop is left: sort, dedup, return
GenReturn ==
  /\ gen.phase = "loop"
  /\ ~BeatsLeft(gen.beat, totalBeatsOf(gen.bpm, gen.duration))
  /\ gen' = [gen EXCEPT !.phase = "done", !.out = Finalize(gen.notes, gen.bpm)]
  /\ UNCHANGED << gameVars, bg, storage, saveLog, loads >>

\* the arguments generateBeatMap is checked on
GenDurations == {Finite(0), Finite(500), Finite(3000), Finite(12000), Finite(20000)}

GenInputs ==
  {GenArgs(song, duration) :
     song \in {TokyoStatic, BlackUmbrella, Izakaya, RooftopDistrict},
     duration \in GenDurations \cup {Infinity, NaN}}
  \cup {GenArgs(GenSong(TokyoStatic.title, bpm), duration) :
          bpm \in {0, -149}, duration \in {Finite(12000), Infinity}}

InitGen == InitGame /\ catalog = {"duo"} /\ gen \in GenInputs

NextGen ==
  \/ GenCall
  \/ GenIterate
  \/ GenReturn

\* the generator alone
SpecGen == InitGen /\ [][NextGen]_vars

\* the calls of generateBeatMap the claims are about
ValidArgs == gen.bpm > 0 /\ gen.duration.kind = "finite"

Malformed == gen.bpm <= 0 \/ gen.duration.kind # "finite"

\* a step of the loop that stays in the loop: one iteration
LoopStep == gen.phase = "loop" /\ gen'.phase = "loop"

\* the notes an iteration pushes
NewNotes == {j \in DOMAIN gen'.notes : j > Len(gen.notes)}

\* how many notes of a sequence share the time of its j-th note
SameTime(notes, j) == Cardinality({k \in DOMAIN notes : notes[k].t = notes[j].t})

C24_SortedUnique ==
  gen.phase = "done" =>
    /\ \A i \in 1..(Len(gen.out) - 1) : gen.out[i].t <= gen.out[i + 1].t
    /\ \A i, j \in DOMAIN gen.out :
         i < j => KeyOf(gen.out[i], gen.bpm) # KeyOf(gen.out[j], gen.bpm)

\* a returned sequence that the sort has put in another order than the
\* notes were pushed in
C24_Witness ==
  gen.phase = "done" /\ Len(gen.out) = Len(gen.notes) /\ gen.out # gen.notes

\* C25 (trailing second): no returned note is later than the song's duration
\* less 1000 ms.
C25_NoNoteInLastSecond ==
  gen.phase = "done" /\ gen.duration.kind = "finite" =>
    \A j \in DOMAIN gen.out : gen.out[j].t <= (gen.duration.ms - TAIL) * gen.bpm

\* C26 (max-simultaneous cap): the notes an iteration pushes share a time
\* with at most maxSimul notes, maxSimul being that of the section of the
\* iteration's beat; each is at an offset of the pattern drawn (a placement is
\* dropped, not moved); and no time of a returned sequence has more than 4.
C26_MaxSimultaneous ==
  /\ [](gen.phase = "done" => \A j \in DOMAIN gen.out : SameTime(gen.out, j) <= 4)
  /\ [][LoopStep =>
          \A j \in NewNotes :
            /\ SameTime(gen'.notes, j) <= sectionAt(gen).maxSimul
            /\ \E k \in DOMAIN patternAt(gen) :
                 gen'.notes[j].beat = gen.beat + patternAt(gen)[k][1]]_vars

\* a call has returned after the cap rejected a placement
C26_Witness == gen.phase = "done" /\ gen.capped > 0 /\ gen.out # << >>

\* C27 (malformed descriptor): a call with bpm <= 0 or a non-finite duration
\* never iterates and never returns a sequence (it throws instead).
C27_MalformedRejected == Malformed => gen.phase # "done" /\ gen.iters = 0

\* C28 (termination): for bpm > 0 and a finite duration >= 0 an iteration
\* advances the beat cursor by at least one beat, by exactly one (pushing no
\* note) when the density check fails, so the loop is left after at most
\* totalBeats iterations and the call returns; a duration shorter than one
\* beat returns the empty sequence.
C28_Terminates ==
  /\ [][ValidArgs /\ LoopStep =>
          /\ gen'.beat >= gen.beat + 1000
          /\ ~DensityCheck(gen) => gen'.beat = gen.beat + 1000 /\ gen'.notes = gen.notes]_vars
  /\ [](ValidArgs /\ gen.phase = "loop" =>
          LET totalBeats == totalBeatsOf(gen.bpm, gen.duration)
          IN /\ gen.beat >= 1000 * gen.iters
             /\ BeatsLeft(gen.beat, totalBeats) => gen.iters < totalBeats.n /\ gen.iters < MaxIters)
  /\ [](ValidArgs /\ gen.phase = "done" /\ totalBeatsOf(gen.bpm, gen.duration).n = 0
          => gen.out = << >>)

\* a call has returned notes after more than 20 iterations
C28_Witness ==
  ValidArgs /\ gen.phase = "done" /\ gen.iters > 20 /\ gen.out # << >>

\* ------------------------------------------------- the results screen
\* the game on the four-note chart: presses 60 ms late are judged great, a
\* note left alone times out, and both song ends are within the run
InitAcc == catalog = {"quad"} /\ PageOpened /\ gen = NoCall

SpecAcc == InitAcc /\ [][Next]_vars

\* the accuracy showResults writes to the results screen
Accuracy == AccuracyOf(gd.stats)

\* C29 (accuracy): on the results screen the accuracy is
\* round(100 x (perfect + 0.7 x great + 0.4 x good) / totalJudged), with
\* totalJudged = perfect + great + good + miss; it is 0 when nothing was
\* judged and lies in 0..100.
C29_AccuracyRounded ==
  state = "results" =>
    /\ Accuracy = AccuracyExact(gd.stats)
    /\ gd.stats = ZeroStats => Accuracy = 0
    /\ Accuracy \in 0..100

\* ------------------------------------------------------------ beat pulse
\* a frame callback of the running game is pending: gameLoop may run now
FramePending == gd # NoGd /\ LoopRuns(state, paused) /\ (gameAF \/ strayAF > 0)

\* the beat pulse a frame running now stores in gd.beatPulse
PulseNow == beatPulse(now - gd.start, BpmOf(gd.song))

\* C30 (beat pulse): the beat-pulse intensity a frame tick computes lies in
\* [0, 1], also on the frames of the arming delay, when elapsed is negative.
C30_BeatPulseInUnit ==
  FramePending => 0 <= PulseNow.n /\ PulseNow.n <= PulseNow.d

\* ------------------------------------------------------- wildcard lanes
\* the pattern loop of the iteration g is at, run on a template: its final
\* rng state and usedLanes, the (beat offset, lane) pairs of the instance
InstanceAt(g, pattern) ==
  PlacePattern(pattern, 1,
               [s |-> RngStep(RngStep(g.s)), notes |-> g.notes, usedLanes |-> {},
                capped |-> g.capped],
               g.beat, sectionAt(g).maxSimul, g.bpm, g.duration)

\* the entries of a template at the beat offset of entry i
SameOffset(pattern, i) == {j \in DOMAIN pattern : pattern[j][1] = pattern[i][1]}

\* C31 (wildcard lanes): no template has more than four entries at one beat
\* offset, and in an iteration of the loop, whichever template the pool draw
\* selects, the entries of the instance resolve to lanes 0..3, fixed lanes
\* as written, no two entries with the same (beat offset, lane).
C31_WildcardLanes ==
  /\ \A name \in DOMAIN PATTERNS : \A i \in DOMAIN PATTERNS[name] :
        Cardinality(SameOffset(PATTERNS[name], i)) <= 4
  /\ gen.phase = "loop" /\ gen.bpm > 0 =>
        \A name \in DOMAIN PATTERNS :
          LET pattern == PATTERNS[name]
              used == InstanceAt(gen, pattern).usedLanes
          IN /\ Cardinality(used) = Len(pattern)
             /\ \A e \in used : e[2] \in 0..3 /\ \E i \in DOMAIN pattern : pattern[i][1] = e[1]
             /\ \A i \in DOMAIN pattern : pattern[i][2] # -1 => << pattern[i][1], pattern[i][2] >> \in used

\* the iteration places the template double, and the second entry's first
\* draw was the lane of the first entry: the lane was drawn again
C31_Witness ==
  /\ gen.phase = "loop" /\ ValidArgs
  /\ BeatsLeft(gen.beat, totalBeatsOf(gen.bpm, gen.duration))
  /\ DensityCheck(gen)
  /\ patternAt(gen) = PATTERNS.double
  /\ InstanceAt(gen, PATTERNS.double).s # RngStep(RngStep(RngStep(RngStep(gen.s))))

\* ------------------------------------------------------ the session ends
\* the host clock reaches the due time of the earliest pending timer when no
\* instant of the run lies ahead: setTimeout callbacks are always delivered
AwaitTimer ==
  /\ \E tm \in timers : tm.due > now
  /\ \A u \in InstantsOf(catalog) : u <= now
  /\ LET ahead == {tm.due : tm \in {x \in timers : x.due > now}}
         due == CHOOSE d \in ahead : \A e \in ahead : d <= e
     IN /\ now' = due
        /\ ctxTime' = IF ctxSuspended THEN ctxTime ELSE ctxTime + (due - now)
  /\ UNCHANGED << catalog, state, paused, pauseTime, selectedSong, gd, buffer, audio,
                  ctxSuspended, timers, gameAF, strayAF, session, endScheduled, pauses >>
  /\ UNCHANGED << playedAt, gen, bg, storage, saveLog, loads >>
  /\ Observe

NextLive ==
  \/ Next
  \/ AwaitTimer

\* the game on the empty chart or on the four-note chart
InitLive == catalog \in {{"empty"}, {"quad"}} /\ PageOpened /\ gen = NoCall

\* the host keeps the clock running and delivers timers, frame callbacks
\* and the audio source's ended event; the player's actions are free
SpecLive ==
  /\ InitLive /\ [][NextLive]_vars
  /\ WF_vars(AdvanceTime) /\ WF_vars(AwaitTimer) /\ WF_vars(GameLoop)
  /\ WF_vars(AudioTimer) /\ WF_vars(AudioEnded) /\ WF_vars(ShowResults)
  /\ WF_vars(LoadComplete)

\* the last instant of the run
Horizon == CHOOSE h \in InstantsOf(catalog) : \A u \in InstantsOf(catalog) : u <= h

\* the instant at which a timer due at d fires
FiringInstant(d) ==
  IF \E u \in InstantsOf(catalog) : u >= d /\ u >= now
  THEN CHOOSE u \in InstantsOf(catalog) :
         /\ u >= d /\ u >= now
         /\ \A v \in InstantsOf(catalog) : v >= d /\ v >= now => u <= v
  ELSE Max(d, now)

\* the run is long enough for the session to end unless it is paused: the
\* clock passes the last note by the 3 s of the song-end test, or (for the
\* empty chart) passes 3 s of elapsed time with the audio played to its end
\* by a running audio context
TimeLeft ==
  IF gd.notes # << >>
  THEN Horizon - gd.start > gd.notes[Len(gd.notes)].t + END_AFTER
  ELSE /\ Horizon - gd.start > END_AFTER
       /\ audio.playing => ctxTime + (Horizon - now) - audio.startTime >= DurationOf(buffer)
       /\ \A tm \in timers :
            tm.kind = "play" => Horizon - FiringInstant(tm.due) >= DurationOf(buffer)

\* no continuation of an earlier selectSong is waiting to call startGame
NoStartPending == \A tm \in timers : tm.kind # "start"

\* a session is running, no showResults timer of an earlier session pending
Running ==
  /\ state = "playing" /\ ~paused /\ gd # NoGd /\ ~gd.done /\ gameAF
  /\ NoStartPending
  /\ \A tm \in timers : tm.kind # "results"

\* C32 (the session ends): a running session whose frames keep firing, with
\* time left in the run, reaches done and the results screen unless it is
\* paused first; a done session gets to the results screen; a session sets at
\* most one showResults timer.
C32_SessionEnds ==
  /\ (Running /\ TimeLeft) ~> ((state = "results" /\ gd.done) \/ paused)
  /\ (state = "playing" /\ gd.done /\ NoStartPending) ~> (state = "results")
  /\ [](gd # NoGd => endScheduled <= 1)

\* --------------------------------------------- the end-of-session timer
\* the step is a run of showResults: a showResults timer is consumed
ShowResultsRuns ==
  /\ state' = "results"
  /\ \E tm \in timers : tm.kind = "results" /\ tm \notin timers'

\* C33 (stale end-of-session timer): showResults, which shows the results
\* and saves the score of gd, only runs while the view is "playing"; after a
\* quit to the track list the abandoned session's results are never shown.
C33_ResultsOnlyWhilePlaying == [][ShowResultsRuns => state = "playing"]_vars

\* ------------------------------------------------- game-loop callbacks
\* the frame callbacks of gameLoop that are pending: the one _gameAF names
\* and the older ones that were never cancelled
PendingFrames == (IF gameAF THEN 1 ELSE 0) + strayAF

\* C34 (one game loop): at most one frame callback of gameLoop is pending,
\* and a frame callback that changes the session state runs in view
\* "playing", not paused.
C34_OneGameLoop ==
  /\ [](PendingFrames <= 1)
  /\ [][GameLoop /\ gd' # gd => state = "playing" /\ ~paused]_vars

\* ------------------------------------------------ background loop frames
\* a display frame runs the pending callbacks of bgLoop
BgFrame ==
  /\ bg.live \/ bg.stray > 0
  /\ bg' = BgFrameResult(bg, state)
  /\ UNCHANGED << catalog, now, state, paused, pauseTime, selectedSong, gd, buffer, audio,
                  ctxSuspended, ctxTime, timers, gameAF, strayAF, session, endScheduled,
                  pauses >>
  /\ UNCHANGED << playedAt, gen, storage, saveLog, loads >>
  /\ Observe

NextBg ==
  \/ Next
  \/ BgFrame

\* the game on the four-note chart with the frames of the background loop
SpecBg == InitAcc /\ [][NextBg]_vars

\* the pending frame callbacks of bgLoop
PendingBgFrames == (IF bg.live THEN 1 ELSE 0) + bg.stray

\* C35 (one background loop): at most one frame callback of bgLoop is
\* pending, however often the lobby and the results screen are entered.
C35_OneBgLoop == PendingBgFrames <= 1

\* ------------------------------------------------ presses outside a session
\* C36 (a lane press counts only in view "playing"): a call of tryHit in a
\* view other than "playing" leaves score, combo, health, counters and notes
\* of the session as they were.
C36_PressOnlyWhilePlaying ==
  [][TryHit /\ state # "playing" => SessionFields(gd') = SessionFields(gd)]_vars

\* ------------------------------------------------ saveScore as a machine
\* the sessions saveScore and getGrade are checked on: track titles, scores
\* and counters
ScoreTracks == {"duo", "combo"}
ScoreInputs == {0, 100, 250}
StatsInputs ==
  {ZeroStats, Counters(1, 0, 0, 0), Counters(3, 1, 0, 0), Counters(199, 1, 0, 0)}

\* the end of a session as showResults handles it: the record, saveScore
SaveRun ==
  /\ saveLog.n < MaxSaves
  /\ \E trackTitle \in ScoreTracks, score \in ScoreInputs, stats \in StatsInputs :
       SaveCall(trackTitle, ResultRecord(score, NonMiss(stats), stats))
  /\ UNCHANGED << gameVars, gen, bg, loads >>

\* the origin's storage quota is used up, or space is freed: setItem throws
\* from now on, or no longer
QuotaChanges ==
  /\ storage' = [storage EXCEPT !.full = ~storage.full]
  /\ UNCHANGED << gameVars, gen, bg, saveLog, loads >>

InitScores == Init /\ catalog = {"duo"}

NextScores ==
  \/ SaveRun
  \/ QuotaChanges

\* saveScore alone
SpecScores == InitScores /\ [][NextScores]_vars

\* C37 (S+ means flawless): a session with at least one judged note is
\* graded S+ only if every judged note was perfect.
C37_SPlusOnlyFlawless ==
  saveLog.n > 0 /\ RecordGrade(saveLog.record) = "S+"
    /\ (saveLog.record.perfectCount + saveLog.record.greatCount
          + saveLog.record.goodCount + saveLog.record.missCount) > 0
    => /\ saveLog.record.greatCount = 0
       /\ saveLog.record.goodCount = 0
       /\ saveLog.record.missCount = 0

\* the step is a call of saveScore
SaveStep == saveLog'.n = saveLog.n + 1

\* the step replaced or created the record of the track saved
RecordWritten ==
  \/ saveLog'.track \notin DOMAIN storage.item /\ saveLog'.track \in DOMAIN storage'.item
  \/ /\ saveLog'.track \in DOMAIN storage.item
     /\ storage'.item[saveLog'.track] # storage.item[saveLog'.track]

\* a call leaves the records of the other tracks alone, and writes a record
\* only if the track had none or the score is strictly greater
OnlyBetterWritten ==
  /\ \A track \in DOMAIN storage.item \ {saveLog'.track} :
       track \in DOMAIN storage'.item /\ storage'.item[track] = storage.item[track]
  /\ DOMAIN storage'.item \subseteq DOMAIN storage.item \cup {saveLog'.track}
  /\ RecordWritten =>
       \/ saveLog'.track \notin DOMAIN storage.item
       \/ saveLog'.record.score > storage.item[saveLog'.track].score

\* every track saved has a record, holding the greatest score saved for it
BestStored ==
  \A track \in DOMAIN saveLog.max :
    track \in DOMAIN storage.item /\ storage.item[track].score = saveLog.max[track]

\* C39 as stated (saveScore keeps the best run): the stored score of a track
\* is the greatest score saved for it, a call leaves the other tracks alone
\* and replaces a record only by a strictly greater score, and it returns
\* true exactly when it replaced or created the record.
C39_BestRunKept ==
  /\ []BestStored
  /\ [][SaveStep => OnlyBetterWritten /\ (saveLog'.isNew <=> RecordWritten)]_vars

\* C39 as the code has it: the same while localStorage takes the write. When
\* setItem throws, the call still returns true and the item stays as it was;
\* from then on the stored score may be less than the greatest score saved.
C39_BestRunKeptWhileWritable ==
  /\ [](~saveLog.lost => BestStored)
  /\ [](\A track \in DOMAIN storage.item :
          track \in DOMAIN saveLog.max /\ storage.item[track].score <= saveLog.max[track])
  /\ [][SaveStep =>
          /\ OnlyBetterWritten
          /\ ~storage.full => (saveLog'.isNew <=> RecordWritten)
          /\ storage.full =>
               /\ storage'.item = storage.item
               /\ saveLog'.isNew <=> IsNewScore(storage.item, saveLog'.track, saveLog'.record)]_vars

\* two calls for a track with the same score, every write taken: the second
\* returned false and the record is the one of the first
C39_Witness ==
  /\ saveLog.n = 2 /\ ~saveLog.lost /\ ~saveLog.isNew
  /\ saveLog.track \in DOMAIN storage.item
  /\ storage.item[saveLog.track].score = saveLog.record.score
  /\ storage.item[saveLog.track].date = 1

\* ------------------------------------------------- loadSong as a machine
\* the songs loaded
LoadSongs == {"duo", "combo"}

NoError == [kind |-> "none", attempt |-> 0]

\* new Error(`HTTP ${response.status}`) of an attempt; the error fetch threw
HttpError(attempt) == [kind |-> "http", attempt |-> attempt]
NetworkError(attempt) == [kind |-> "network", attempt |-> attempt]

\* a call of loadSong past this.buffer = null: the locals response, lastErr
\* and attempt; log lists the fetches made and the waits awaited; thrown is
\* the error the call ended with; overlapped tells that another call was in
\* progress at some time during this one
NewLoad(song, overlapped) ==
  [song |-> song, phase |-> "fetch", attempt |-> 0, response |-> "none",
   lastErr |-> NoError, log |-> << >>, thrown |-> NoError, overlapped |-> overlapped]

InProgress(load) == load.phase \in {"fetch", "wait", "read"}

\* RetryDelay with the same delay before every retry
RetryDelayFlat(attempt) == 1000

\* if (attempt < 2) await new Promise(r => setTimeout(r, 1000 * (attempt + 1)))
RetryDelay(attempt) == 1000 * (attempt + 1)

\* the rest of an iteration whose fetch failed, and the test after the loop:
\* if (!response || !response.ok) throw lastErr || new Error(...)
AfterFailedFetch(load) ==
  IF load.attempt < 2
  THEN [load EXCEPT !.phase = "wait",
                    !.log = Append(@, [kind |-> "wait", ms |-> RetryDelay(load.attempt)])]
  ELSE IF load.response # "ok"
  THEN [load EXCEPT !.phase = "failed",
                    !.thrown = IF load.lastErr # NoError THEN load.lastErr
                               ELSE [kind |-> "Failed to load song", attempt |-> 0]]
  ELSE [load EXCEPT !.phase = "read"]

\* response = await fetch(url) settles: an OK response, a response that is
\* not OK, or a rejection
FetchResult(load, outcome) ==
  LET fetched == [load EXCEPT !.log = Append(@, [kind |-> "fetch", ms |-> 0])]
  IN CASE outcome = "ok" -> [fetched EXCEPT !.response = "ok", !.phase = "read"]
       [] outcome = "http" ->
            AfterFailedFetch([fetched EXCEPT !.response = "bad",
                                             !.lastErr = HttpError(load.attempt)])
       [] outcome = "network" ->
            AfterFailedFetch([fetched EXCEPT !.lastErr = NetworkError(load.attempt)])

\* loadSong(url) is called: init(), resume() (the caller has just awaited
\* it), stop(), this.buffer = null, and the first fetch is sent
LoadSong ==
  /\ Len(loads) < MaxLoads
  /\ \E song \in LoadSongs :
       LET busy == \E i \in DOMAIN loads : InProgress(loads[i])
       IN loads' = Append([i \in DOMAIN loads |->
                             IF InProgress(loads[i])
                             THEN [loads[i] EXCEPT !.overlapped = TRUE]
                             ELSE loads[i]],
                          NewLoad(song, busy))
  /\ buffer' = NoSong
  /\ audio' = [audio EXCEPT !.playing = FALSE]
  /\ UNCHANGED << catalog, now, state, paused, pauseTime, selectedSong, gd, ctxSuspended,
                  ctxTime, timers, gameAF, strayAF, session, anchor0, pausedSince,
                  pausedTotal, streak, endScheduled, pauses, playedAt >>
  /\ UNCHANGED << gen, bg, storage, saveLog >>

\* the fetch of a call settles
FetchSettles ==
  /\ \E i \in DOMAIN loads, outcome \in {"ok", "http", "network"} :
       /\ loads[i].phase = "fetch"
       /\ loads' = [loads EXCEPT ![i] = FetchResult(loads[i], outcome)]
  /\ UNCHANGED << gameVars, gen, bg, storage, saveLog >>

\* the wait before the next attempt is over
WaitEnds ==
  /\ \E i \in DOMAIN loads :
       /\ loads[i].phase = "wait"
       /\ loads' = [loads EXCEPT ![i].phase = "fetch", ![i].attempt = @ + 1]
  /\ UNCHANGED << gameVars, gen, bg, storage, saveLog >>

\* the body is read and decoded: this.buffer = await decodeAudioData(...),
\* or reader.read() or decodeAudioData rejects
BodyDecoded ==
  /\ \E i \in DOMAIN loads, outcome \in {"decoded", "read error", "decode error"} :
       /\ loads[i].phase = "read"
       /\ IF outcome = "decoded"
          THEN /\ loads' = [loads EXCEPT ![i].phase = "done"]
               /\ buffer' = loads[i].song
          ELSE /\ loads' = [loads EXCEPT ![i].phase = "failed",
                                         ![i].thrown = [kind |-> outcome, attempt |-> 0]]
               /\ buffer' = buffer
  /\ UNCHANGED << catalog, now, state, paused, pauseTime, selectedSong, gd, audio,
                  ctxSuspended, ctxTime, timers, gameAF, strayAF, session, anchor0,
                  pausedSince, pausedTotal, streak, endScheduled, pauses, playedAt >>
  /\ UNCHANGED << gen, bg, storage, saveLog >>

InitLoad == Init /\ catalog = {"duo"}

NextLoad ==
  \/ LoadSong
  \/ FetchSettles
  \/ WaitEnds
  \/ BodyDecoded

\* loadSong alone
SpecLoad == InitLoad /\ [][NextLoad]_vars

\* the fetches of a call
Fetches(load) == {k \in DOMAIN load.log : load.log[k].kind = "fetch"}

\* fetches and waits alternate, the waits are of 1000 ms and 2000 ms, and
\* at most three fetches are made
RetryProtocol(load) ==
  /\ Cardinality(Fetches(load)) <= 3
  /\ \A k \in DOMAIN load.log :
       /\ k % 2 = 1 => load.log[k].kind = "fetch"
       /\ k % 2 = 0 => load.log[k] = [kind |-> "wait", ms |-> 1000 * (k \div 2)]
  /\ load.phase \in {"read", "done"} => load.response = "ok"
  /\ load.response = "ok" =>
       load.phase \in {"read", "done", "failed"} /\ load.log[Len(load.log)].kind = "fetch"
  /\ load.phase = "failed" /\ load.response # "ok" =>
       /\ Len(load.log) = 5
       /\ load.thrown.kind \in {"http", "network"}
       /\ load.thrown.attempt = 2

\* a step in which a call of loadSong ends by throwing
LoadFails(i) ==
  i \in DOMAIN loads /\ InProgress(loads[i]) /\ loads'[i].phase = "failed"

TypeOK ==
  /\ catalog \subseteq SONGS \cup {"quad", "empty"}
  /\ now \in InstantsOf(catalog)
  /\ state \in {"lobby", "loading", "playing", "results"}
  /\ paused \in BOOLEAN
  /\ gd.hp \in 0..HP_FULL
  /\ gameAF \in BOOLEAN
  /\ strayAF \in 0..MaxStray

====
